---- MODULE Spec2Model ----
(***************************************************************************)
(* Consent-cookie polling and cookie validation of the cookie-consent     *)
(* end-to-end suite (tests/utils/cookie.validator.ts and its config).     *)
(*                                                                         *)
(* Strings are sequences of one-character strings, so that                *)
(* String.prototype.includes, template literals and === are computed on   *)
(* characters as the code computes them.                                  *)
(***************************************************************************)
EXTENDS Integers, Sequences, FiniteSets, TLC

VARIABLES
    \* ---- CookieValidator.waitForConsentCookie ----
    pc,               \* position in the loop: "fetch", "wait", "done", "failed"
    maxRetries,       \* the maxRetries argument
    retryCount,       \* let retryCount
    cookiesAfter,     \* let cookiesAfter (<<>> while still undefined)
    consentCookieSet, \* const consentCookieSet of the latest iteration
    result,           \* the promise waitForConsentCookie returned: pending,
                      \* fulfilled with a value, or rejected with a reason
    fetched,          \* the snapshots page.context().cookies() resolved with, in order
    log,              \* what happened on the page, in order: "fetch" (cookies()
                      \* resolved), "wait" (waitForTimeout resolved), the
                      \* error cookies() rejected with, or the rejection of
                      \* waitForTimeout
    \* ---- CookieValidator.validateCookies ----
    vpc,              \* "call" before the call, "returned" after it
    cookies,          \* the cookies argument
    expectations,     \* the expectations argument
    validationResult, \* the returned CookieValidationResult
    \* ---- CookieValidator.validateConsentCookieContent ----
    dpc,              \* "call" before the call, "returned" after it
    consentContent,   \* the returned ConsentCookieContent
    \* ---- test 'accept only necessary cookies' ----
    necessaryOnly,    \* "pending", "passed", or the message of the expect that failed
    \* ---- CookieCustomizationTest.validateCookies (the workflow) ----
    wpc,              \* next step: "lookup", "log", "validate", "assert",
                      \* "consent", "resume" (after the await of
                      \* validateConsentCookie); or the end: "passed", "failed"
    projectName,      \* this.projectName
    cookiesBefore,    \* the cookiesBefore argument
    projectExpectations, \* const projectExpectations
    console,          \* the lines written with console.log, in order
    failure,          \* the error the test ended with, if any
    \* ---- two tests running in parallel, each polling its own page ----
    workers,          \* per worker, the frame of its waitForConsentCookie
                      \* call and the outcomes its page has produced
    \* ---- CookieCustomizationTest.execute ----
    epc,              \* index of the next statement of execute(); 0 when
                      \* execute() is not running or has thrown
    platform,         \* this.platform
    trace,            \* the calls execute() has made, in order
    \* ---- CookiePreferencesPage.openCookiePreferences ----
    opc,              \* "check", "attempt" (an approach has started),
                      \* "clicked" (its click went through), "returned",
                      \* "thrown", "rejected"; "idle"
    attempt,          \* the loop index i
    dialogVisible,    \* the Customize dialog is visible on the page
    clicks,           \* the approaches that clicked, in order
    outcomes,         \* per tried approach: its number, what it came to
                      \* ("true", "false", "threw"), the dialog's visibility after
    \* ---- test 'should enable ${category} cookies in isolation ...' ----
    tpc,              \* the await the test is suspended at: "navigate",
                      \* "getCookies", "open", "disable", "enable", "save",
                      \* "saveWait", "verify", "isChecked", "close",
                      \* "finalCookies"; or the end: "passed", "failed"; "idle"
    category,         \* the category under test
    checked,          \* the checkbox of each optional category
    checkedAtSave,    \* the checkboxes when Save My Preferences was clicked
    categoryIndex,    \* position of the loop of disableAllOptionalCookies in
                      \* OPTIONAL_COOKIE_CATEGORIES
    isChecked,        \* const isChecked of verifyCategoryIsEnabled: "true",
                      \* "false"; "undefined" before
    accepting,        \* the button an accept test clicks: "Accept necessary
                      \* only", "Accept all"; "" in a per-category test
    \* ---- analyzeCookieData ----
    apc,              \* the await the script is suspended at: "readdir",
                      \* "readFile"; or the end: "done", "caught"; "idle"
    files,            \* the entries of the directory data-export
    projectData       \* const projectData

pollVars == <<pc, maxRetries, retryCount, cookiesAfter, consentCookieSet, result, fetched, log>>
valVars == <<vpc, cookies, expectations, validationResult>>
decVars == <<dpc, consentContent, necessaryOnly>>
wfVars == <<wpc, projectName, cookiesBefore, projectExpectations, console, failure>>
concVars == <<workers>>
execVars == <<epc, platform, trace>>
prefVars == <<opc, attempt, dialogVisible, clicks, outcomes>>
catVars == <<tpc, category, checked, checkedAtSave, categoryIndex, isChecked, accepting>>
anVars == <<apc, files, projectData>>
uiVars == <<execVars, prefVars, catVars, anVars>>
vars == <<pollVars, valVars, decVars, wfVars, concVars, uiVars>>

----------------------------------------------------------------------------
(* Bounds *)

\* largest maxRetries argument explored
MaxRetries == 3
\* maxRetries arguments down to -NegRetries are explored
NegRetries == 1
\* longest cookie snapshot the cookie source returns
MaxSnapshotLen == 2
\* longest cookie list handed to validateCookies
MaxCookies == 2
\* longest requiredCookies list
MaxRequired == 2
\* longest optionalCookies list
MaxOptional == 2

----------------------------------------------------------------------------
(* Strings *)

\* mutant: startsWith for includes
IncludesAtStart(s, sub) ==
    Len(sub) <= Len(s) /\ SubSeq(s, 1, Len(sub)) = sub

\* String.prototype.includes
Includes(s, sub) ==
    \E i \in 0..(Len(s) - Len(sub)) : SubSeq(s, i + 1, i + Len(sub)) = sub

\* CookieConfig.CONSENT_COOKIE_NAME = 'cookieyes-consent'
CONSENT_COOKIE_NAME ==
    <<"c","o","o","k","i","e","y","e","s","-","c","o","n","s","e","n","t">>
\* CookieConfig.WWW_DOMAIN = '.www.thethinkingtraveller.com'
WWW_DOMAIN ==
    <<".","w","w","w",".","t","h","e","t","h","i","n","k","i","n","g",
      "t","r","a","v","e","l","l","e","r",".","c","o","m">>
\* CookieConfig.BASE_DOMAIN = '.thethinkingtraveller.com'
BASE_DOMAIN ==
    <<".","t","h","e","t","h","i","n","k","i","n","g",
      "t","r","a","v","e","l","l","e","r",".","c","o","m">>

\* the literal 'consent:yes'
ConsentYes == <<"c","o","n","s","e","n","t",":","y","e","s">>

\* all sequences over S of length 0..n
RECURSIVE SeqUpTo(_, _)
SeqUpTo(S, n) ==
    IF n = 0 THEN {<<>>}
    ELSE LET shorter == SeqUpTo(S, n - 1)
         IN  shorter \cup {Append(s, x) : s \in {t \in shorter : Len(t) = n - 1}, x \in S}

----------------------------------------------------------------------------
(* CookieValidator.waitForConsentCookie *)

\* cookies the cookie source may hold while the loop polls
PollCookies ==
    { [name |-> CONSENT_COOKIE_NAME, domain |-> WWW_DOMAIN,
       value |-> ConsentYes \o <<";","a","c","t","i","o","n",":","y","e","s">>],
      [name |-> CONSENT_COOKIE_NAME, domain |-> WWW_DOMAIN,
       value |-> <<"c","o","n","s","e","n","t",":","n","o">>],
      [name |-> <<"_","c","l","c","k">>, domain |-> BASE_DOMAIN,
       value |-> ConsentYes] }

Snapshots == SeqUpTo(PollCookies, MaxSnapshotLen)

\* errors page.context().cookies() may reject with (browser closed, context torn down)
TransportErrors == {"BrowserClosed", "ContextTornDown"}

\* mutant: the value test is forgotten, any cookie of that name counts
ConsentCookieSetNameOnly(snapshot) ==
    \E i \in 1..Len(snapshot) : snapshot[i].name = CONSENT_COOKIE_NAME

\* cookiesAfter.some(cookie => cookie.name === CONSENT_COOKIE_NAME
\*                             && cookie.value.includes('consent:yes'))
ConsentCookieSetOf(snapshot) ==
    \E i \in 1..Len(snapshot) :
        /\ snapshot[i].name = CONSENT_COOKIE_NAME
        /\ Includes(snapshot[i].value, ConsentYes)

\* mutant: the loop does not break on a committed consent cookie
BreakConditionBudgetOnly(set, count, max) == count >= max

\* mutant: > for >=, so a budget of 0 still waits once
BreakConditionStrict(set, count, max) == set \/ count > max

\* if (consentCookieSet || retryCount >= maxRetries) break;
BreakCondition(set, count, max) == set \/ count >= max

\* mutant: <= for <, one fetch too many
LoopConditionInclusive(count, max) == count <= max

\* mutant: the loop gives up one attempt early
LoopConditionShort(count, max) == count + 1 < max

\* } while (retryCount < maxRetries);
LoopCondition(count, max) == count < max

\* null
Null == [type |-> "null"]

\* no error
NoFailure == [type |-> "none"]

\* no parallel workers are running
ConcIdle == workers = <<>>

\* execute() is not running
ExecIdle ==
    /\ epc = 0
    /\ platform = "undefined"
    /\ trace = <<>>

\* openCookiePreferences is not running
PrefIdle ==
    /\ opc = "idle"
    /\ attempt = 0
    /\ dialogVisible = FALSE
    /\ clicks = <<>>
    /\ outcomes = <<>>

\* no per-category test is running
CatIdle ==
    /\ tpc = "idle"
    /\ category = ""
    /\ checked = <<>>
    /\ checkedAtSave = <<>>
    /\ categoryIndex = 0
    /\ isChecked = "undefined"
    /\ accepting = ""

\* analyzeCookieData is not running
AnIdle ==
    /\ apc = "idle"
    /\ files = <<>>
    /\ projectData = <<>>

\* none of the page-driving tests and scripts is running
UiIdle == ExecIdle /\ PrefIdle /\ CatIdle /\ AnIdle

\* the customization workflow is not running
WfIdle ==
    /\ wpc = "idle"
    /\ projectName = ""
    /\ cookiesBefore = <<>>
    /\ projectExpectations = Null
    /\ console = <<>>
    /\ failure = NoFailure

\* the consent decoder and the accept-necessary test are not running
DecIdle ==
    /\ dpc = "idle"
    /\ consentContent = [hasYesConsent |-> FALSE, hasYesAction |-> FALSE,
                         hasYesNecessary |-> FALSE]
    /\ necessaryOnly = "idle"

\* validateCookies is not part of a polling run
ValIdle ==
    /\ vpc = "idle"
    /\ cookies = <<>>
    /\ expectations = [requiredCookies |-> <<>>]
    /\ validationResult = [isValid |-> FALSE, missingRequired |-> <<>>,
                           foundOptional |-> 0, totalOptional |-> 0]

PollInit ==
    /\ pc = "fetch"
    /\ maxRetries \in (0 - NegRetries)..MaxRetries
    /\ retryCount = 0
    /\ cookiesAfter = <<>>
    /\ consentCookieSet = FALSE
    /\ result = [state |-> "pending"]
    /\ fetched = <<>>
    /\ log = <<>>
    /\ ValIdle
    /\ DecIdle
    /\ WfIdle
    /\ ConcIdle
    /\ UiIdle

\* console.log(`Retry ${retryCount + 1}: Waiting for consent cookie to be
\* properly set...`)
RetryLine(count) ==
    [line |-> "Retry ${retryCount + 1}: Waiting for consent cookie to be properly set...",
     retry |-> count + 1]

\* the log entry of a page.waitForTimeout(1000) that rejected
WaitRejection ==
    ("BrowserClosed" :> "waitForTimeout rejected: BrowserClosed")
    @@ ("ContextTornDown" :> "waitForTimeout rejected: ContextTornDown")

\* One pass from the top of the do-body to the next suspension point:
\* cookies() resolves with a snapshot, consentCookieSet is computed, and the
\* loop either breaks out and returns, or writes the retry line and starts
\* page.waitForTimeout(1000).
FetchFrom(jar) ==
    /\ pc = "fetch"
    /\ \E snapshot \in jar :
         LET set == ConsentCookieSetOf(snapshot) IN
         /\ cookiesAfter' = snapshot
         /\ fetched' = Append(fetched, snapshot)
         /\ log' = Append(log, "fetch")
         /\ consentCookieSet' = set
         /\ IF BreakCondition(set, retryCount, maxRetries)
            THEN /\ pc' = "done"
                 /\ result' = [state |-> "fulfilled", value |-> snapshot]
                 /\ console' = console
            ELSE /\ pc' = "wait"
                 /\ result' = result
                 /\ console' = Append(console, RetryLine(retryCount))
    /\ UNCHANGED <<maxRetries, retryCount>>
    /\ UNCHANGED <<wpc, projectName, cookiesBefore, projectExpectations, failure>>
    /\ UNCHANGED <<valVars, decVars>>
    /\ UNCHANGED concVars
    /\ UNCHANGED uiVars

\* the pass on the snapshots a polled cookie source may hold
Fetch == FetchFrom(Snapshots)

\* mutant: the rejection is caught and the last snapshot returned instead
FetchThrowsSwallowed ==
    /\ pc = "fetch"
    /\ \E error \in TransportErrors : log' = Append(log, error)
    /\ result' = [state |-> "fulfilled", value |-> cookiesAfter]
    /\ pc' = "done"
    /\ UNCHANGED <<maxRetries, retryCount, cookiesAfter, consentCookieSet, fetched>>
    /\ UNCHANGED <<valVars, decVars, wfVars>>
    /\ UNCHANGED concVars
    /\ UNCHANGED uiVars

\* cookies() rejects: nothing in the function catches it, so the promise of
\* waitForConsentCookie rejects with the same error.
FetchThrows ==
    /\ pc = "fetch"
    /\ \E error \in TransportErrors :
         /\ log' = Append(log, error)
         /\ result' = [state |-> "rejected", reason |-> error]
    /\ pc' = "failed"
    /\ UNCHANGED <<maxRetries, retryCount, cookiesAfter, consentCookieSet, fetched>>
    /\ UNCHANGED <<valVars, decVars, wfVars>>
    /\ UNCHANGED concVars
    /\ UNCHANGED uiVars

\* page.waitForTimeout(1000) resolves; retryCount++; the while condition is
\* tested and the function either loops or returns cookiesAfter.
WaitForTimeout ==
    /\ pc = "wait"
    /\ log' = Append(log, "wait")
    /\ retryCount' = retryCount + 1
    /\ IF LoopCondition(retryCount + 1, maxRetries)
       THEN /\ pc' = "fetch"
            /\ result' = result
       ELSE /\ pc' = "done"
            /\ result' = [state |-> "fulfilled", value |-> cookiesAfter]
    /\ UNCHANGED <<maxRetries, cookiesAfter, consentCookieSet, fetched>>
    /\ UNCHANGED <<valVars, decVars, wfVars>>
    /\ UNCHANGED concVars
    /\ UNCHANGED uiVars

\* page.waitForTimeout(1000) rejects (the page or the browser was closed):
\* nothing in the function catches it, so the promise of waitForConsentCookie
\* rejects with the same error.
WaitForTimeoutThrows ==
    /\ pc = "wait"
    /\ \E error \in TransportErrors :
         /\ log' = Append(log, WaitRejection[error])
         /\ result' = [state |-> "rejected", reason |-> error]
    /\ pc' = "failed"
    /\ UNCHANGED <<maxRetries, retryCount, cookiesAfter, consentCookieSet, fetched>>
    /\ UNCHANGED <<valVars, decVars, wfVars>>
    /\ UNCHANGED concVars
    /\ UNCHANGED uiVars

PollNext == Fetch \/ FetchThrows \/ WaitForTimeout \/ WaitForTimeoutThrows

PollSpec == PollInit /\ [][PollNext]_vars

\* the scheduler resolves every pending await of a test that is not abandoned
FairPollSpec == PollSpec /\ WF_vars(PollNext)

----------------------------------------------------------------------------
(* CookieValidator.validateCookies *)

\* cookies the validated list is drawn from: two names that differ only in
\* letter case, two domains that differ only by a leading dot
ValCookies ==
    { [name |-> <<"c","k">>, domain |-> <<".","t">>, value |-> <<"v">>],
      [name |-> <<"C","k">>, domain |-> <<".","t">>, value |-> <<"v">>],
      [name |-> <<"c","k">>, domain |-> <<"t">>, value |-> <<"v">>] }

\* the name@domain entries expectations are drawn from
ExpectedKeys ==
    { <<"c","k","@",".","t">>, <<"C","k","@",".","t">>, <<"c","k","@","t">> }

\* ExpectedCookies: requiredCookies: string[]; optionalCookies?: string[]
ExpectedCookies ==
    { [requiredCookies |-> r] : r \in SeqUpTo(ExpectedKeys, MaxRequired) }
    \cup [requiredCookies : SeqUpTo(ExpectedKeys, MaxRequired),
          optionalCookies : SeqUpTo(ExpectedKeys, MaxOptional)]

\* mutant: the key is built from the name alone
CookieKeyNameOnly(c) == c.name \o <<"@">>

\* mutant: the www host is folded into the base domain before the key is built
CookieKeyBaseDomain(c) ==
    c.name \o <<"@">> \o (IF c.domain = WWW_DOMAIN THEN BASE_DOMAIN ELSE c.domain)

\* `${c.name}@${c.domain}`
CookieKey(c) == c.name \o <<"@">> \o c.domain

\* cookies.map(c => `${c.name}@${c.domain}`)
CookieKeys(cs) == [i \in 1..Len(cs) |-> CookieKey(cs[i])]

\* String.prototype.toLowerCase on the letters A to Z
UpperToLower ==
    ("A" :> "a") @@ ("B" :> "b") @@ ("C" :> "c") @@ ("D" :> "d") @@ ("E" :> "e")
    @@ ("F" :> "f") @@ ("G" :> "g") @@ ("H" :> "h") @@ ("I" :> "i") @@ ("J" :> "j")
    @@ ("K" :> "k") @@ ("L" :> "l") @@ ("M" :> "m") @@ ("N" :> "n") @@ ("O" :> "o")
    @@ ("P" :> "p") @@ ("Q" :> "q") @@ ("R" :> "r") @@ ("S" :> "s") @@ ("T" :> "t")
    @@ ("U" :> "u") @@ ("V" :> "v") @@ ("W" :> "w") @@ ("X" :> "x") @@ ("Y" :> "y")
    @@ ("Z" :> "z")

\* String.prototype.toLowerCase()
ToLowerCase(s) ==
    [i \in 1..Len(s) |->
        IF s[i] \in DOMAIN UpperToLower THEN UpperToLower[s[i]] ELSE s[i]]

\* mutant: keys are compared ignoring letter case
ArrayIncludesIgnoreCase(arr, x) ==
    \E i \in 1..Len(arr) : ToLowerCase(arr[i]) = ToLowerCase(x)

\* Array.prototype.includes on an array of strings
ArrayIncludes(arr, x) == \E i \in 1..Len(arr) : arr[i] = x

\* mutant: unshift for push, misses come out in reverse order
PushFront(arr, x) == <<x>> \o arr

\* missingRequired.push(requiredCookie)
Push(arr, x) == Append(arr, x)

\* for (const requiredCookie of expectations.requiredCookies)
\*   if (!cookieKeys.includes(requiredCookie)) missingRequired.push(requiredCookie)
RECURSIVE CollectMissing(_, _, _, _)
CollectMissing(cookieKeys, required, i, missingRequired) ==
    IF i > Len(required) THEN missingRequired
    ELSE CollectMissing(cookieKeys, required, i + 1,
            IF ~ArrayIncludes(cookieKeys, required[i])
            THEN Push(missingRequired, required[i])
            ELSE missingRequired)

\* mutant: the observed cookies that are optional are counted, not the
\* optional entries that are observed
CountOptionalByCookie(cookieKeys, optional, i, foundOptional) ==
    foundOptional
        + Cardinality({j \in 1..Len(cookieKeys) : ArrayIncludes(optional, cookieKeys[j])})

\* for (const optionalCookie of expectations.optionalCookies)
\*   if (cookieKeys.includes(optionalCookie)) foundOptional++
RECURSIVE CountOptional(_, _, _, _)
CountOptional(cookieKeys, optional, i, foundOptional) ==
    IF i > Len(optional) THEN foundOptional
    ELSE CountOptional(cookieKeys, optional, i + 1,
            IF ArrayIncludes(cookieKeys, optional[i])
            THEN foundOptional + 1
            ELSE foundOptional)

\* mutant: one missing required cookie is tolerated
IsValidButOne(missingRequired) == Len(missingRequired) <= 1

\* isValid: missingRequired.length === 0
IsValid(missingRequired) == Len(missingRequired) = 0

\* mutant: the length of the wrong list is reported
TotalOptionalOfRequired(expected) == Len(expected.requiredCookies)

\* totalOptional: expectations.optionalCookies?.length || 0
TotalOptional(expected) ==
    IF "optionalCookies" \in DOMAIN expected
    THEN Len(expected.optionalCookies)
    ELSE 0

\* mutant: a result is valid only when every optional cookie was found too
validateCookiesOptionalGate(cs, expected) ==
    LET cookieKeys == CookieKeys(cs)
        missingRequired == CollectMissing(cookieKeys, expected.requiredCookies, 1, <<>>)
        hasOptional == "optionalCookies" \in DOMAIN expected
        foundOptional ==
            IF hasOptional
            THEN CountOptional(cookieKeys, expected.optionalCookies, 1, 0)
            ELSE 0
    IN  [isValid |-> IsValid(missingRequired) /\ foundOptional = TotalOptional(expected),
         missingRequired |-> missingRequired,
         foundOptional |-> foundOptional,
         totalOptional |-> TotalOptional(expected)]

validateCookies(cs, expected) ==
    LET cookieKeys == CookieKeys(cs)
        missingRequired == CollectMissing(cookieKeys, expected.requiredCookies, 1, <<>>)
        hasOptional == "optionalCookies" \in DOMAIN expected
        foundOptional ==
            IF hasOptional
            THEN CountOptional(cookieKeys, expected.optionalCookies, 1, 0)
            ELSE 0
    IN  [isValid |-> IsValid(missingRequired),
         missingRequired |-> missingRequired,
         foundOptional |-> foundOptional,
         totalOptional |-> TotalOptional(expected)]

\* waitForConsentCookie is not part of a validateCookies call
PollIdle ==
    /\ pc = "idle"
    /\ maxRetries = 0
    /\ retryCount = 0
    /\ cookiesAfter = <<>>
    /\ consentCookieSet = FALSE
    /\ result = [state |-> "pending"]
    /\ fetched = <<>>
    /\ log = <<>>

ValidateInit ==
    /\ vpc = "call"
    /\ cookies \in SeqUpTo(ValCookies, MaxCookies)
    /\ expectations \in ExpectedCookies
    /\ validationResult = [isValid |-> FALSE, missingRequired |-> <<>>,
                           foundOptional |-> 0, totalOptional |-> 0]
    /\ PollIdle
    /\ DecIdle
    /\ WfIdle
    /\ ConcIdle
    /\ UiIdle

\* the call CookieValidator.validateCookies(cookies, expectations) returns
ValidateCookies ==
    /\ vpc = "call"
    /\ validationResult' = validateCookies(cookies, expectations)
    /\ vpc' = "returned"
    /\ UNCHANGED <<cookies, expectations>>
    /\ UNCHANGED <<pollVars, decVars, wfVars>>
    /\ UNCHANGED concVars
    /\ UNCHANGED uiVars

ValidateNext == ValidateCookies

ValidateSpec == ValidateInit /\ [][ValidateNext]_vars

----------------------------------------------------------------------------
(* CookieValidator.validateConsentCookieContent and the test                *)
(* 'accept only necessary cookies'                                          *)

\* longest cookie list handed to the decoder
MaxDecodeCookies == 2

\* the literals the decoder and the test look for
ActionYes == <<"a","c","t","i","o","n",":","y","e","s">>
NecessaryYes == <<"n","e","c","e","s","s","a","r","y",":","y","e","s">>
AnalyticsNo == <<"a","n","a","l","y","t","i","c","s",":","n","o">>
AdvertisementNo == <<"a","d","v","e","r","t","i","s","e","m","e","n","t",":","n","o">>
GoogleAnalyticsDomain == <<"g","o","o","g","l","e","-","a","n","a","l","y","t","i","c","s",".","c","o","m">>
GoogleTagManagerDomain == <<"g","o","o","g","l","e","t","a","g","m","a","n","a","g","e","r",".","c","o","m">>
FacebookDomain == <<"f","a","c","e","b","o","o","k",".","c","o","m">>

\* the value the site writes after 'Accept necessary only'
NecessaryOnlyValue ==
    <<"c","o","n","s","e","n","t",":","y","e","s",";","a","c","t","i","o",
      "n",":","y","e","s",";","n","e","c","e","s","s","a","r","y",":","y",
      "e","s",";","f","u","n","c","t","i","o","n","a","l",":","n","o",";",
      "a","n","a","l","y","t","i","c","s",":","n","o",";","p","e","r","f",
      "o","r","m","a","n","c","e",":","n","o",";","a","d","v","e","r","t",
      "i","s","e","m","e","n","t",":","n","o",";","o","t","h","e","r",":",
      "n","o">>

\* consent-cookie values the decoder is handed: the well-formed one, the
\* empty string, the tokens in another order with a blank and another
\* delimiter, a value with refusals, and a value whose token is broken by a
\* blank
DecodeValues ==
    { NecessaryOnlyValue,
      <<>>,
      <<"n","e","c","e","s","s","a","r","y",":","y","e","s",";"," ","a","c","t","i","o","n",":","y","e","s","|","c","o","n","s","e","n","t",":","y","e","s">>,
      <<"c","o","n","s","e","n","t",":","n","o",";","a","c","t","i","o","n",":","y","e","s",";","n","e","c","e","s","s","a","r","y",":","n","o">>,
      <<"c","o","n","s","e","n","t",":"," ","y","e","s">> }

\* the cookies of a snapshot: the consent cookie with each value, a cookie of
\* another name carrying consent tokens, and an analytics cookie
DecodeCookies ==
    { [name |-> CONSENT_COOKIE_NAME, domain |-> WWW_DOMAIN, value |-> v] :
          v \in DecodeValues }
    \cup
    { [name |-> <<"_","c","l","c","k">>, domain |-> BASE_DOMAIN,
       value |-> ConsentYes \o <<";">> \o ActionYes \o <<";">> \o NecessaryYes],
      [name |-> <<"_","g","a">>, domain |-> <<".">> \o GoogleAnalyticsDomain,
       value |-> <<"G","A","1">>] }

\* the expectations the decoded snapshot is validated against: the consent
\* cookie alone, and the consent cookie with the Clarity cookie
DecodeExpectations ==
    { [requiredCookies |-> << CONSENT_COOKIE_NAME \o <<"@">> \o WWW_DOMAIN >>],
      [requiredCookies |-> << CONSENT_COOKIE_NAME \o <<"@">> \o WWW_DOMAIN,
                              <<"_","c","l","c","k">> \o <<"@">> \o BASE_DOMAIN >>] }

\* the pieces of s between the occurrences of the one-character delimiter d
RECURSIVE Split(_, _)
Split(s, d) ==
    IF \A i \in 1..Len(s) : s[i] # d THEN <<s>>
    ELSE LET p == CHOOSE i \in 1..Len(s) :
                      s[i] = d /\ \A j \in 1..(i - 1) : s[j] # d
         IN  <<SubSeq(s, 1, p - 1)>> \o Split(SubSeq(s, p + 1, Len(s)), d)

\* mutant: the value is split on ';' and a token must equal one of the pieces
HasTokenStrict(value, token) ==
    \E i \in 1..Len(Split(value, ";")) : Split(value, ";")[i] = token

\* mutant: only the answer is looked for, ':yes' of any key
HasTokenAnyYes(value, token) == Includes(value, <<":","y","e","s">>)

\* consentCookie.value.includes('<key>:yes')
HasToken(value, token) == Includes(value, token)

\* cookies.find(cookie => cookie.name === CONSENT_COOKIE_NAME): the index of
\* the first match, 0 for undefined
FindConsentCookie(cs) ==
    IF \E i \in 1..Len(cs) : cs[i].name = CONSENT_COOKIE_NAME
    THEN CHOOSE i \in 1..Len(cs) :
             /\ cs[i].name = CONSENT_COOKIE_NAME
             /\ \A j \in 1..(i - 1) : cs[j].name # CONSENT_COOKIE_NAME
    ELSE 0

\* mutant: a missing consent cookie reads as necessary cookies accepted
NotFoundContentNecessary ==
    [hasYesConsent |-> FALSE, hasYesAction |-> FALSE, hasYesNecessary |-> TRUE]

\* the object returned when no consent cookie is found
NotFoundContent ==
    [hasYesConsent |-> FALSE, hasYesAction |-> FALSE, hasYesNecessary |-> FALSE]

validateConsentCookieContent(cs) ==
    LET found == FindConsentCookie(cs) IN
    IF found = 0
    THEN NotFoundContent
    ELSE [hasYesConsent |-> HasToken(cs[found].value, ConsentYes),
          hasYesAction |-> HasToken(cs[found].value, ActionYes),
          hasYesNecessary |-> HasToken(cs[found].value, NecessaryYes)]

\* cookiesAfter.filter(cookie => cookie.domain.includes(part)).length
CountDomain(cs, part) ==
    Cardinality({i \in 1..Len(cs) : Includes(cs[i].domain, part)})

\* the expects of test 'accept only necessary cookies' on the snapshot read
\* after the click, in order; the first one that fails ends the test
AcceptNecessaryOutcome(cs) ==
    LET found == FindConsentCookie(cs) IN
    IF found = 0
        THEN "Consent cookie should be present"
    ELSE IF ~Includes(cs[found].value, NecessaryYes)
        THEN "Consent should indicate necessary cookies accepted"
    ELSE IF ~Includes(cs[found].value, AnalyticsNo)
        THEN "Analytics should be disabled"
    ELSE IF ~Includes(cs[found].value, AdvertisementNo)
        THEN "Advertisement should be disabled"
    ELSE IF CountDomain(cs, GoogleAnalyticsDomain)
              + CountDomain(cs, GoogleTagManagerDomain) # 0
        THEN "No Google Analytics/Tag Manager cookies should be present"
    ELSE IF CountDomain(cs, FacebookDomain) # 0
        THEN "No Facebook tracking cookies should be present"
    ELSE "passed"

DecodeInit ==
    /\ dpc = "call"
    /\ necessaryOnly = "pending"
    /\ consentContent = NotFoundContent
    /\ vpc = "call"
    /\ cookies \in SeqUpTo(DecodeCookies, MaxDecodeCookies)
    /\ expectations \in DecodeExpectations
    /\ validationResult = [isValid |-> FALSE, missingRequired |-> <<>>,
                           foundOptional |-> 0, totalOptional |-> 0]
    /\ PollIdle
    /\ WfIdle
    /\ ConcIdle
    /\ UiIdle

\* the call CookieValidator.validateConsentCookieContent(cookies) returns
ValidateConsentCookieContent ==
    /\ dpc = "call"
    /\ consentContent' = validateConsentCookieContent(cookies)
    /\ dpc' = "returned"
    /\ UNCHANGED necessaryOnly
    /\ UNCHANGED <<pollVars, valVars, wfVars>>
    /\ UNCHANGED concVars
    /\ UNCHANGED uiVars

\* the test 'accept only necessary cookies' runs its expects on the snapshot
AcceptNecessaryOnly ==
    /\ necessaryOnly = "pending"
    /\ necessaryOnly' = AcceptNecessaryOutcome(cookies)
    /\ UNCHANGED <<dpc, consentContent>>
    /\ UNCHANGED <<pollVars, valVars, wfVars>>
    /\ UNCHANGED concVars
    /\ UNCHANGED uiVars

DecodeNext == ValidateConsentCookieContent \/ AcceptNecessaryOnly \/ ValidateCookies

DecodeSpec == DecodeInit /\ [][DecodeNext]_vars

----------------------------------------------------------------------------
(* CookieConfig: the registry of expected cookies per Playwright project *)

\* the cookie names written in the registry's template literals
Clck == <<"_","c","l","c","k">>
Zldp ==
    <<"t","t","t","d","e","m","o","r","e","p","a","t","h","-","_","z","l",
      "d","p">>
Zldt ==
    <<"t","t","t","d","e","m","o","r","e","p","a","t","h","-","_","z","l",
      "d","t">>
Uetsid == <<"_","u","e","t","s","i","d">>
Uetvid == <<"_","u","e","t","v","i","d">>

\* mutant: the template literal without its '@'
RegistryKeyNoAt(name, domain) == name \o domain

\* the template literal `${name}@${domain}` of a registry entry
RegistryKey(name, domain) == name \o <<"@">> \o domain

\* CookieConfig.COOKIE_EXPECTATIONS: the own properties of the object literal
COOKIE_EXPECTATIONS ==
    ("chromium" :>
        [requiredCookies |-> <<RegistryKey(CONSENT_COOKIE_NAME, WWW_DOMAIN),
                               RegistryKey(Clck, BASE_DOMAIN)>>,
         optionalCookies |-> <<RegistryKey(Zldp, BASE_DOMAIN),
                               RegistryKey(Zldt, BASE_DOMAIN),
                               RegistryKey(Uetsid, BASE_DOMAIN),
                               RegistryKey(Uetvid, BASE_DOMAIN)>>])
    @@ ("webkit" :>
        [requiredCookies |-> <<RegistryKey(CONSENT_COOKIE_NAME, WWW_DOMAIN),
                               RegistryKey(Clck, BASE_DOMAIN)>>,
         optionalCookies |-> <<RegistryKey(Zldp, BASE_DOMAIN),
                               RegistryKey(Zldt, BASE_DOMAIN),
                               RegistryKey(Uetsid, BASE_DOMAIN),
                               RegistryKey(Uetvid, BASE_DOMAIN)>>])
    @@ ("firefox" :>
        [requiredCookies |-> <<RegistryKey(CONSENT_COOKIE_NAME, WWW_DOMAIN),
                               RegistryKey(Clck, BASE_DOMAIN)>>,
         optionalCookies |-> <<RegistryKey(Zldp, BASE_DOMAIN),
                               RegistryKey(Zldt, BASE_DOMAIN),
                               RegistryKey(Uetsid, BASE_DOMAIN),
                               RegistryKey(Uetvid, BASE_DOMAIN)>>])
    @@ ("Microsoft Edge" :>
        [requiredCookies |-> <<RegistryKey(CONSENT_COOKIE_NAME, WWW_DOMAIN),
                               RegistryKey(Clck, BASE_DOMAIN)>>,
         optionalCookies |-> <<RegistryKey(Zldp, BASE_DOMAIN),
                               RegistryKey(Zldt, BASE_DOMAIN),
                               RegistryKey(Uetsid, BASE_DOMAIN),
                               RegistryKey(Uetvid, BASE_DOMAIN)>>])
    @@ ("Mobile Chrome" :>
        [requiredCookies |-> <<RegistryKey(CONSENT_COOKIE_NAME, WWW_DOMAIN),
                               RegistryKey(Clck, BASE_DOMAIN)>>,
         optionalCookies |-> <<RegistryKey(Zldp, BASE_DOMAIN),
                               RegistryKey(Zldt, BASE_DOMAIN)>>])
    @@ ("Mobile Safari" :>
        [requiredCookies |-> <<RegistryKey(CONSENT_COOKIE_NAME, WWW_DOMAIN),
                               RegistryKey(Clck, BASE_DOMAIN)>>,
         optionalCookies |-> <<RegistryKey(Zldp, BASE_DOMAIN),
                               RegistryKey(Zldt, BASE_DOMAIN)>>])

\* The property names every object literal inherits from Object.prototype.
\* COOKIE_EXPECTATIONS[projectName] reads them through the prototype chain,
\* and each of them is truthy (a function, or Object.prototype itself).
ObjectPrototypeKeys ==
    {"constructor", "toString", "toLocaleString", "valueOf", "hasOwnProperty",
     "isPrototypeOf", "propertyIsEnumerable", "__proto__",
     "__defineGetter__", "__defineSetter__", "__lookupGetter__",
     "__lookupSetter__"}

\* CookieConfig.getExpectedCookies(projectName):
\* this.COOKIE_EXPECTATIONS[projectName] || null
getExpectedCookies(name) ==
    IF name \in DOMAIN COOKIE_EXPECTATIONS
    THEN COOKIE_EXPECTATIONS[name]
    ELSE IF name \in ObjectPrototypeKeys
    THEN [type |-> "inherited", key |-> name]
    ELSE Null

----------------------------------------------------------------------------
(* CookieCustomizationTest.validateCookies: the validation half of the
   customization workflow, from the registry lookup to the last assertion *)

\* longest final snapshot handed to the workflow
MaxWorkflowCookies == 2

\* the project names the workflow is run under: the registered ones, two
\* unregistered ones, and one that names a property of Object.prototype
ProjectNames ==
    DOMAIN COOKIE_EXPECTATIONS \cup {"Google Chrome", "Chromium", "constructor"}

\* the cookies of a final snapshot: a consent cookie with every category the
\* workflow asserts, one with the action refused, one with consent refused,
\* the Clarity cookie and an optional cookie
WorkflowCookies ==
    { [name |-> CONSENT_COOKIE_NAME, domain |-> WWW_DOMAIN,
       value |-> ConsentYes \o <<";">> \o ActionYes \o <<";">> \o NecessaryYes],
      [name |-> CONSENT_COOKIE_NAME, domain |-> WWW_DOMAIN,
       value |-> ConsentYes \o <<";","a","c","t","i","o","n",":","n","o",";">>
                     \o NecessaryYes],
      [name |-> CONSENT_COOKIE_NAME, domain |-> WWW_DOMAIN,
       value |-> <<"c","o","n","s","e","n","t",":","n","o">>],
      [name |-> Clck, domain |-> BASE_DOMAIN, value |-> <<"x">>],
      [name |-> Zldp, domain |-> BASE_DOMAIN, value |-> <<"1">>] }

\* the snapshots taken before the modal is opened
WorkflowCookiesBefore ==
    { <<>>, <<[name |-> Clck, domain |-> BASE_DOMAIN, value |-> <<"x">>]>> }

\* Array.prototype.join(sep) on an array of strings
RECURSIVE Join(_, _)
Join(arr, sep) ==
    IF Len(arr) = 0 THEN <<>>
    ELSE IF Len(arr) = 1 THEN arr[1]
    ELSE arr[1] \o sep \o Join(Tail(arr), sep)

\* the separator ', '
CommaSpace == <<",", " ">>

\* !projectExpectations: of the values the lookup returns only null is falsy
IsFalsy(v) == v = Null

\* the first two console lines of logCookieValidation
LogHeaderLines(name, before, after) ==
    << [line |-> "Validating cookies for ${projectName}...", projectName |-> name],
       [line |-> "Cookie count: ${before} -> ${after} (change: ${after - before})",
        before |-> Len(before), after |-> Len(after),
        change |-> Len(after) - Len(before)] >>

\* the console line of each required cookie, in declaration order
LogRequiredLines(cookieKeys, required) ==
    [i \in 1..Len(required) |->
        [line |-> "${requiredCookie}: FOUND|MISSING (required)",
         cookie |-> required[i],
         isPresent |-> ArrayIncludes(cookieKeys, required[i])]]

\* the console lines of the optional cookies and their count
LogOptionalLines(cookieKeys, expected) ==
    IF "optionalCookies" \in DOMAIN expected
    THEN [i \in 1..Len(expected.optionalCookies) |->
            [line |-> "${optionalCookie}: FOUND|MISSING (optional)",
             cookie |-> expected.optionalCookies[i],
             isPresent |-> ArrayIncludes(cookieKeys, expected.optionalCookies[i])]]
         \o << [line |-> "Optional cookies found: ${optionalFound}/${length}",
                optionalFound |-> CountOptional(cookieKeys, expected.optionalCookies, 1, 0),
                length |-> Len(expected.optionalCookies)] >>
    ELSE <<>>

\* cookiesAfter.some(cookie => cookie.name === CONSENT_COOKIE_NAME
\*                            && cookie.value.includes('consent:yes'))
ConsentCookieUpdated(cs) ==
    \E i \in 1..Len(cs) :
        /\ cs[i].name = CONSENT_COOKIE_NAME
        /\ Includes(cs[i].value, ConsentYes)

\* the three console lines of logConsentCookieValidation
LogConsentLines(content) ==
    << [line |-> "Consent value: YES|NO", yes |-> content.hasYesConsent],
       [line |-> "Action value: YES|NO", yes |-> content.hasYesAction],
       [line |-> "Necessary value: YES|NO", yes |-> content.hasYesNecessary] >>

\* the error a failed expect(...).toBe(true) throws
ExpectFailed(message) == [type |-> "expect", message |-> message]

\* validateCookies(cookiesBefore, cookiesAfter) is called with the final
\* snapshot in cookies
WorkflowInit ==
    /\ wpc = "lookup"
    /\ projectName \in ProjectNames
    /\ cookiesBefore \in WorkflowCookiesBefore
    /\ projectExpectations = Null
    /\ console = <<>>
    /\ failure = NoFailure
    /\ vpc = "idle"
    /\ cookies \in SeqUpTo(WorkflowCookies, MaxWorkflowCookies)
    /\ expectations = [requiredCookies |-> <<>>]
    /\ validationResult = [isValid |-> FALSE, missingRequired |-> <<>>,
                           foundOptional |-> 0, totalOptional |-> 0]
    /\ PollIdle
    /\ DecIdle
    /\ ConcIdle
    /\ UiIdle

\* the registry lookup and its guard: without expectations the method logs a
\* warning and returns
GetExpectedCookies ==
    /\ wpc = "lookup"
    /\ LET found == getExpectedCookies(projectName) IN
         /\ projectExpectations' = found
         /\ IF IsFalsy(found)
            THEN /\ console' = Append(console,
                        [line |-> "No validation rules defined for project: ${this.projectName}",
                         projectName |-> projectName])
                 /\ wpc' = "passed"
            ELSE /\ console' = console
                 /\ wpc' = "log"
    /\ UNCHANGED <<projectName, cookiesBefore, failure>>
    /\ UNCHANGED <<pollVars, valVars, decVars>>
    /\ UNCHANGED concVars
    /\ UNCHANGED uiVars

\* CookieValidator.logCookieValidation: for...of over a requiredCookies that
\* is undefined throws a TypeError after the first two lines are written
LogCookieValidation ==
    /\ wpc = "log"
    /\ LET header == LogHeaderLines(projectName, cookiesBefore, cookies)
           cookieKeys == CookieKeys(cookies)
       IN  IF "requiredCookies" \in DOMAIN projectExpectations
           THEN /\ console' = console \o header
                        \o LogRequiredLines(cookieKeys, projectExpectations.requiredCookies)
                        \o LogOptionalLines(cookieKeys, projectExpectations)
                /\ wpc' = "validate"
                /\ failure' = failure
           ELSE /\ console' = console \o header
                /\ failure' = [type |-> "TypeError",
                               message |-> "expectations.requiredCookies is not iterable"]
                /\ wpc' = "failed"
    /\ UNCHANGED <<projectName, cookiesBefore, projectExpectations>>
    /\ UNCHANGED <<pollVars, valVars, decVars>>
    /\ UNCHANGED concVars
    /\ UNCHANGED uiVars

\* const validationResult = CookieValidator.validateCookies(cookiesAfter,
\*                                                         projectExpectations)
WorkflowValidateCookies ==
    /\ wpc = "validate"
    /\ expectations' = projectExpectations
    /\ validationResult' = validateCookies(cookies, projectExpectations)
    /\ vpc' = "returned"
    /\ wpc' = "assert"
    /\ UNCHANGED cookies
    /\ UNCHANGED <<projectName, cookiesBefore, projectExpectations, console, failure>>
    /\ UNCHANGED <<pollVars, decVars>>
    /\ UNCHANGED concVars
    /\ UNCHANGED uiVars

\* mutant: the missing cookies are logged and the workflow goes on
AssertRequiredCookiesLogOnly ==
    /\ wpc = "assert"
    /\ console' = IF validationResult.isValid THEN console
                  ELSE Append(console,
                         [line |-> "Missing required cookies: ${missingRequired.join(', ')}",
                          missingRequired |-> Join(validationResult.missingRequired, CommaSpace)])
    /\ wpc' = "consent"
    /\ UNCHANGED <<projectName, cookiesBefore, projectExpectations, failure>>
    /\ UNCHANGED <<pollVars, valVars, decVars>>
    /\ UNCHANGED concVars
    /\ UNCHANGED uiVars

\* this.assertRequiredCookies(validationResult, cookiesAfter): both lists are
\* logged, then the first expect(false, ...) of the loop throws
AssertRequiredCookies ==
    /\ wpc = "assert"
    /\ IF ~validationResult.isValid
       THEN LET availableCookies == Join(CookieKeys(cookies), CommaSpace) IN
            /\ console' = console \o
                 << [line |-> "Missing required cookies: ${missingRequired.join(', ')}",
                     missingRequired |-> Join(validationResult.missingRequired, CommaSpace)],
                    [line |-> "Available cookies: ${availableCookies}",
                     availableCookies |-> availableCookies] >>
            /\ IF Len(validationResult.missingRequired) > 0
               THEN /\ failure' = ExpectFailed(
                         [text |-> "Required cookie ${missingCookie} should be present after customization. Available cookies: ${availableCookies}",
                          missingCookie |-> validationResult.missingRequired[1],
                          availableCookies |-> availableCookies])
                    /\ wpc' = "failed"
               ELSE /\ failure' = failure
                    /\ wpc' = "consent"
       ELSE /\ console' = console
            /\ failure' = failure
            /\ wpc' = "consent"
    /\ UNCHANGED <<projectName, cookiesBefore, projectExpectations>>
    /\ UNCHANGED <<pollVars, valVars, decVars>>
    /\ UNCHANGED concVars
    /\ UNCHANGED uiVars

\* the expect of validateConsentCookie that fails first on content, or "none"
FirstFailedConsentExpect(content) ==
    IF ~content.hasYesConsent THEN "Consent cookie should contain consent:yes"
    ELSE IF ~content.hasYesAction THEN "Consent cookie should contain action:yes"
    ELSE IF ~content.hasYesNecessary THEN "Consent cookie should contain necessary:yes"
    ELSE "none"

\* await this.validateConsentCookie(cookiesAfter), and the success line that
\* follows it
ValidateConsentCookie ==
    /\ wpc = "consent"
    /\ LET consentCookieUpdated == ConsentCookieUpdated(cookies)
           content == validateConsentCookieContent(cookies)
           updatedLine == [line |-> "Consent cookie updated: ${consentCookieUpdated}",
                           consentCookieUpdated |-> consentCookieUpdated]
       IN  IF ~consentCookieUpdated
           THEN /\ console' = Append(console, updatedLine)
                /\ failure' = ExpectFailed(
                     [text |-> "Consent cookie should be updated after customization"])
                /\ wpc' = "failed"
                /\ UNCHANGED <<dpc, consentContent>>
           ELSE /\ consentContent' = content
                /\ dpc' = "returned"
                /\ IF FirstFailedConsentExpect(content) # "none"
                   THEN /\ console' = console \o <<updatedLine>> \o LogConsentLines(content)
                        /\ failure' = ExpectFailed([text |-> FirstFailedConsentExpect(content)])
                        /\ wpc' = "failed"
                   ELSE /\ console' = console \o <<updatedLine>> \o LogConsentLines(content)
                        /\ failure' = failure
                        /\ wpc' = "resume"
    /\ UNCHANGED necessaryOnly
    /\ UNCHANGED <<projectName, cookiesBefore, projectExpectations>>
    /\ UNCHANGED <<pollVars, valVars>>
    /\ UNCHANGED concVars
    /\ UNCHANGED uiVars

\* validateCookies resumes after `await this.validateConsentCookie(...)`:
\* console.log('All required cookies validated successfully!') and return
ValidateCookiesResume ==
    /\ wpc = "resume"
    /\ console' = Append(console, [line |-> "All required cookies validated successfully!"])
    /\ wpc' = "passed"
    /\ UNCHANGED <<projectName, cookiesBefore, projectExpectations, failure>>
    /\ UNCHANGED <<pollVars, valVars, decVars>>
    /\ UNCHANGED concVars
    /\ UNCHANGED uiVars

WorkflowNext ==
    \/ GetExpectedCookies
    \/ LogCookieValidation
    \/ WorkflowValidateCookies
    \/ AssertRequiredCookies
    \/ ValidateConsentCookie
    \/ ValidateCookiesResume

WorkflowSpec == WorkflowInit /\ [][WorkflowNext]_vars

----------------------------------------------------------------------------
(* Two tests run in parallel (fullyParallel): each calls
   waitForConsentCookie on its own page *)

\* the default of waitForConsentCookie's maxRetries parameter, which every
\* call of the workflow runs with
DefaultMaxRetries == 3

\* the two tests running at the same time
Workers == {1, 2}

\* what a page's cookie jar returns to a parallel run: nothing, a committed
\* consent cookie, or a refused one
ConcSnapshots == {s \in Snapshots : Len(s) <= 1 /\ (\A i \in 1..Len(s) : s[i].name = CONSENT_COOKIE_NAME)}

\* the frame of a waitForConsentCookie call that has not fetched yet
NewFrame(max) ==
    [pc |-> "fetch", maxRetries |-> max, retryCount |-> 0, cookiesAfter |-> <<>>,
     consentCookieSet |-> FALSE, result |-> [state |-> "pending"],
     log |-> <<>>, source |-> <<>>]

ConcInit ==
    /\ workers = [p \in Workers |-> NewFrame(DefaultMaxRetries)]
    /\ PollIdle
    /\ ValIdle
    /\ DecIdle
    /\ WfIdle
    /\ UiIdle

\* worker p: cookies() of its own page resolves; as Fetch
ConcFetch(p) ==
    /\ workers[p].pc = "fetch"
    /\ \E snapshot \in ConcSnapshots :
         LET w == workers[p]
             set == ConsentCookieSetOf(snapshot)
             break == BreakCondition(set, w.retryCount, w.maxRetries)
         IN  /\ workers' = [workers EXCEPT ![p] =
                 [w EXCEPT !.cookiesAfter = snapshot,
                           !.consentCookieSet = set,
                           !.source = Append(@, [ok |-> TRUE, cookies |-> snapshot]),
                           !.log = Append(@, "fetch"),
                           !.pc = IF break THEN "done" ELSE "wait",
                           !.result = IF break
                                      THEN [state |-> "fulfilled", value |-> snapshot]
                                      ELSE @]]
             /\ console' = IF break THEN console
                           ELSE Append(console, RetryLine(w.retryCount))
    /\ UNCHANGED <<wpc, projectName, cookiesBefore, projectExpectations, failure>>
    /\ UNCHANGED <<pollVars, valVars, decVars>>
    /\ UNCHANGED uiVars

\* worker p: cookies() of its own page rejects; as FetchThrows
ConcFetchThrows(p) ==
    /\ workers[p].pc = "fetch"
    /\ \E error \in TransportErrors :
         workers' = [workers EXCEPT ![p] =
             [workers[p] EXCEPT !.source = Append(@, [ok |-> FALSE, error |-> error]),
                                !.log = Append(@, error),
                                !.pc = "failed",
                                !.result = [state |-> "rejected", reason |-> error]]]
    /\ UNCHANGED <<pollVars, valVars, decVars, wfVars>>
    /\ UNCHANGED uiVars

\* mutant: retryCount is a static field, incremented for every running call
ConcWaitForTimeoutShared(p) ==
    /\ workers[p].pc = "wait"
    /\ LET w == workers[p]
           loop == LoopCondition(w.retryCount + 1, w.maxRetries)
       IN  workers' = [q \in Workers |->
               IF q = p
               THEN [w EXCEPT !.retryCount = @ + 1,
                              !.log = Append(@, "wait"),
                              !.pc = IF loop THEN "fetch" ELSE "done",
                              !.result = IF loop THEN @
                                         ELSE [state |-> "fulfilled", value |-> w.cookiesAfter]]
               ELSE [workers[q] EXCEPT !.retryCount = @ + 1]]
    /\ UNCHANGED <<pollVars, valVars, decVars, wfVars>>
    /\ UNCHANGED uiVars

\* worker p: its waitForTimeout(1000) resolves; as WaitForTimeout
ConcWaitForTimeout(p) ==
    /\ workers[p].pc = "wait"
    /\ LET w == workers[p]
           loop == LoopCondition(w.retryCount + 1, w.maxRetries)
       IN  workers' = [workers EXCEPT ![p] =
               [w EXCEPT !.retryCount = @ + 1,
                         !.log = Append(@, "wait"),
                         !.pc = IF loop THEN "fetch" ELSE "done",
                         !.result = IF loop THEN @
                                    ELSE [state |-> "fulfilled", value |-> w.cookiesAfter]]]
    /\ UNCHANGED <<pollVars, valVars, decVars, wfVars>>
    /\ UNCHANGED uiVars

\* worker p: its waitForTimeout(1000) rejects; as WaitForTimeoutThrows
ConcWaitForTimeoutThrows(p) ==
    /\ workers[p].pc = "wait"
    /\ \E error \in TransportErrors :
         workers' = [workers EXCEPT ![p] =
             [workers[p] EXCEPT !.source = Append(@, [ok |-> FALSE, wait |-> TRUE,
                                                     error |-> error]),
                                !.log = Append(@, WaitRejection[error]),
                                !.pc = "failed",
                                !.result = [state |-> "rejected", reason |-> error]]]
    /\ UNCHANGED <<pollVars, valVars, decVars, wfVars>>
    /\ UNCHANGED uiVars

ConcNext ==
    \/ \E p \in Workers : ConcFetch(p)
    \/ \E p \in Workers : ConcFetchThrows(p)
    \/ \E p \in Workers : ConcWaitForTimeout(p)
    \/ \E p \in Workers : ConcWaitForTimeoutThrows(p)

ConcSpec == ConcInit /\ [][ConcNext]_vars

\* waitForConsentCookie run alone on a page whose calls produce the outcomes
\* of source, from the k-th on: one outcome per cookies() call, and after a
\* fetch that is followed by a wait an outcome of waitForTimeout when that
\* call rejected (a wait that resolves leaves no outcome). The result is the
\* exit the run takes, its promise, its log, the number of retry lines it
\* wrote and the number of outcomes it used. A run that asks for an outcome
\* source does not hold is still POLLING.
RECURSIVE RunAloneFrom(_, _, _, _, _)
RunAloneFrom(source, max, count, k, lg) ==
    IF k > Len(source) \/ "wait" \in DOMAIN source[k]
    THEN [state |-> "POLLING", result |-> [state |-> "pending"],
          log |-> lg, retries |-> count, used |-> k - 1]
    ELSE IF ~source[k].ok
    THEN [state |-> "FAILED",
          result |-> [state |-> "rejected", reason |-> source[k].error],
          log |-> Append(lg, source[k].error), retries |-> count, used |-> k]
    ELSE LET snapshot == source[k].cookies
             set == ConsentCookieSetOf(snapshot)
         IN  IF BreakCondition(set, count, max)
             THEN [state |-> IF set THEN "COMMITTED" ELSE "EXHAUSTED",
                   result |-> [state |-> "fulfilled", value |-> snapshot],
                   log |-> Append(lg, "fetch"), retries |-> count, used |-> k]
             ELSE IF k + 1 <= Len(source) /\ "wait" \in DOMAIN source[k + 1]
             THEN [state |-> "FAILED",
                   result |-> [state |-> "rejected", reason |-> source[k + 1].error],
                   log |-> lg \o <<"fetch", WaitRejection[source[k + 1].error]>>,
                   retries |-> count + 1, used |-> k + 1]
             ELSE IF LoopCondition(count + 1, max)
             THEN RunAloneFrom(source, max, count + 1, k + 1, lg \o <<"fetch", "wait">>)
             ELSE [state |-> "EXHAUSTED",
                   result |-> [state |-> "fulfilled", value |-> snapshot],
                   log |-> lg \o <<"fetch", "wait">>, retries |-> count + 1,
                   used |-> k]

RunAlone(source, max) == RunAloneFrom(source, max, 0, 1, <<>>)

----------------------------------------------------------------------------
(* CookieCustomizationTest.execute: the customization workflow from the
   navigation to the validation of the polled snapshot *)

\* mutant: a branded Chrome project is configured beside the six
PlaywrightProjectsWithBrandedChrome ==
    ("Mobile Safari" :> [platform |-> "mobile"])
    @@ ("Mobile Chrome" :> [platform |-> "mobile"])
    @@ ("chromium" :> [platform |-> "desktop"])
    @@ ("webkit" :> [platform |-> "desktop"])
    @@ ("firefox" :> [platform |-> "desktop"])
    @@ ("Microsoft Edge" :> [platform |-> "desktop"])
    @@ ("Google Chrome" :> [platform |-> "desktop"])

\* the projects of playwright.config.ts with their metadata
PlaywrightProjects ==
    ("Mobile Safari" :> [platform |-> "mobile"])
    @@ ("Mobile Chrome" :> [platform |-> "mobile"])
    @@ ("chromium" :> [platform |-> "desktop"])
    @@ ("webkit" :> [platform |-> "desktop"])
    @@ ("firefox" :> [platform |-> "desktop"])
    @@ ("Microsoft Edge" :> [platform |-> "desktop"])

\* mutant: the consent cookie is polled before the preferences are saved
ExecuteOrderPollBeforeSave ==
    << "navigate", "getCookies", "openCustomizeModal", "handleDesktopSpecificUI",
       "waitForConsentCookie", "savePreferences", "handleBrowserSpecificWaits",
       "waitForNetworkIdle", "validateCookies" >>

\* the statements of execute(), in program order
ExecuteOrder ==
    << "navigate", "getCookies", "openCustomizeModal", "handleDesktopSpecificUI",
       "savePreferences", "handleBrowserSpecificWaits", "waitForNetworkIdle",
       "waitForConsentCookie", "validateCookies" >>

\* the statement execute() is about to run
Statement ==
    IF epc \in 1..Len(ExecuteOrder) THEN ExecuteOrder[epc] ELSE "none"

\* the consent cookies a page can hold
ExecConsentCookies == {c \in WorkflowCookies : c.name = CONSENT_COOKIE_NAME}

\* what the page's cookie jar returns while it is polled: nothing, a consent
\* cookie, or a consent cookie and the Clarity cookie
ExecSnapshots ==
    {<<>>} \cup {<<c>> : c \in ExecConsentCookies}
    \cup {<<c, k>> : c \in ExecConsentCookies,
                     k \in {d \in WorkflowCookies : d.name = Clck}}

\* the error of a rejected step
StepFailed(step) == [type |-> "Error", step |-> step]

ExecInit ==
    /\ epc = 1
    /\ projectName \in DOMAIN PlaywrightProjects
    /\ platform = PlaywrightProjects[projectName].platform
    /\ trace = <<>>
    /\ wpc = "idle"
    /\ cookiesBefore = <<>>
    /\ projectExpectations = Null
    /\ console = <<>>
    /\ failure = NoFailure
    /\ PollIdle
    /\ ValIdle
    /\ DecIdle
    /\ ConcIdle
    /\ PrefIdle
    /\ CatIdle
    /\ AnIdle

\* await this.cookieConsentPage.navigate(): page.goto may reject
ExecNavigate ==
    /\ Statement = "navigate"
    /\ trace' = Append(trace, "navigate")
    /\ \E ok \in BOOLEAN :
         IF ok THEN epc' = epc + 1 /\ failure' = failure
         ELSE epc' = 0 /\ failure' = StepFailed("navigate")
    /\ UNCHANGED <<platform, wpc, projectName, cookiesBefore, projectExpectations, console>>
    /\ UNCHANGED <<pollVars, valVars, decVars, concVars, prefVars, catVars, anVars>>

\* const cookiesBefore = await this.cookieConsentPage.getCookies()
ExecGetCookies ==
    /\ Statement = "getCookies"
    /\ trace' = Append(trace, "getCookies")
    /\ \/ \E before \in WorkflowCookiesBefore :
            /\ cookiesBefore' = before
            /\ epc' = epc + 1
            /\ failure' = failure
       \/ /\ cookiesBefore' = cookiesBefore
          /\ epc' = 0
          /\ failure' = StepFailed("getCookies")
    /\ UNCHANGED <<platform, wpc, projectName, projectExpectations, console>>
    /\ UNCHANGED <<pollVars, valVars, decVars, concVars, prefVars, catVars, anVars>>

\* await this.cookieConsentPage.openCustomizeModal(): the click may reject
ExecOpenCustomizeModal ==
    /\ Statement = "openCustomizeModal"
    /\ trace' = Append(trace, "openCustomizeModal")
    /\ \E ok \in BOOLEAN :
         IF ok THEN epc' = epc + 1 /\ failure' = failure
         ELSE epc' = 0 /\ failure' = StepFailed("openCustomizeModal")
    /\ UNCHANGED <<platform, wpc, projectName, cookiesBefore, projectExpectations, console>>
    /\ UNCHANGED <<pollVars, valVars, decVars, concVars, prefVars, catVars, anVars>>

\* await BrowserUtils.handleDesktopSpecificUI(page, platform): on desktop the
\* hover and click are tried and a rejection is logged, not thrown
ExecHandleDesktopSpecificUI ==
    /\ Statement = "handleDesktopSpecificUI"
    /\ trace' = Append(trace, "handleDesktopSpecificUI")
    /\ \E ok \in BOOLEAN :
         console' = IF platform = "desktop" /\ ~ok
                    THEN Append(console,
                           [line |-> "Desktop-specific elements not found or already handled, continuing..."])
                    ELSE console
    /\ epc' = epc + 1
    /\ UNCHANGED <<platform, wpc, projectName, cookiesBefore, projectExpectations, failure>>
    /\ UNCHANGED <<pollVars, valVars, decVars, concVars, prefVars, catVars, anVars>>

\* await this.cookieConsentPage.savePreferences(): the click may reject
ExecSavePreferences ==
    /\ Statement = "savePreferences"
    /\ trace' = Append(trace, "savePreferences")
    /\ \E ok \in BOOLEAN :
         IF ok THEN epc' = epc + 1 /\ failure' = failure
         ELSE epc' = 0 /\ failure' = StepFailed("savePreferences")
    /\ UNCHANGED <<platform, wpc, projectName, cookiesBefore, projectExpectations, console>>
    /\ UNCHANGED <<pollVars, valVars, decVars, concVars, prefVars, catVars, anVars>>

\* the statement execute() is about to run was called and has not settled
Called == Len(trace) > 0 /\ trace[Len(trace)] = Statement

\* await BrowserUtils.handleBrowserSpecificWaits(page, projectName): on
\* Microsoft Edge the line is written and page.waitForTimeout(2000) starts;
\* on every other project the function returns at once
ExecHandleBrowserSpecificWaits ==
    /\ Statement = "handleBrowserSpecificWaits"
    /\ ~Called
    /\ trace' = Append(trace, "handleBrowserSpecificWaits")
    /\ IF projectName = "Microsoft Edge"
       THEN /\ console' = Append(console,
                   [line |-> "Microsoft Edge detected - adding extra wait time for tracking cookies..."])
            /\ epc' = epc
       ELSE /\ console' = console
            /\ epc' = epc + 1
    /\ UNCHANGED <<platform, wpc, projectName, cookiesBefore, projectExpectations, failure>>
    /\ UNCHANGED <<pollVars, valVars, decVars, concVars, prefVars, catVars, anVars>>

\* page.waitForTimeout(2000) of handleBrowserSpecificWaits settles: it
\* resolves, or it rejects and nothing between the call and execute()
\* catches the error
ExecBrowserSpecificWaitSettles ==
    /\ Statement = "handleBrowserSpecificWaits"
    /\ Called
    /\ \E ok \in BOOLEAN :
         IF ok THEN epc' = epc + 1 /\ failure' = failure
         ELSE epc' = 0 /\ failure' = StepFailed("handleBrowserSpecificWaits")
    /\ UNCHANGED <<platform, trace, wpc, projectName, cookiesBefore, projectExpectations, console>>
    /\ UNCHANGED <<pollVars, valVars, decVars, concVars, prefVars, catVars, anVars>>

\* await BrowserUtils.waitForNetworkIdle(page): a timeout is logged
ExecWaitForNetworkIdle ==
    /\ Statement = "waitForNetworkIdle"
    /\ trace' = Append(trace, "waitForNetworkIdle")
    /\ \E idle \in BOOLEAN :
         console' = IF idle THEN console
                    ELSE Append(console,
                           [line |-> "Network did not reach idle state, continuing..."])
    /\ epc' = epc + 1
    /\ UNCHANGED <<platform, wpc, projectName, cookiesBefore, projectExpectations, failure>>
    /\ UNCHANGED <<pollVars, valVars, decVars, concVars, prefVars, catVars, anVars>>

\* const cookiesAfter = await CookieValidator.waitForConsentCookie(this.page):
\* the call, with the default maxRetries; the loop starts at its first
\* cookies()
ExecWaitForConsentCookie ==
    /\ Statement = "waitForConsentCookie"
    /\ pc = "idle"
    /\ trace' = Append(trace, "waitForConsentCookie")
    /\ pc' = "fetch"
    /\ maxRetries' = DefaultMaxRetries
    /\ UNCHANGED <<retryCount, cookiesAfter, consentCookieSet, result, fetched, log>>
    /\ UNCHANGED <<epc, platform>>
    /\ UNCHANGED <<valVars, decVars, wfVars, concVars, prefVars, catVars, anVars>>

\* one pass of the loop on the snapshots the page's cookie jar may hold
ExecFetch == FetchFrom(ExecSnapshots)

\* the promise of waitForConsentCookie settles and execute() resumes: with
\* the snapshot, or by rejecting with the error of the page call
ExecConsentCookieSettles ==
    /\ Statement = "waitForConsentCookie"
    /\ pc \in {"done", "failed"}
    /\ IF pc = "failed"
       THEN /\ epc' = 0
            /\ failure' = [type |-> "Error", step |-> "waitForConsentCookie",
                           reason |-> result.reason]
       ELSE /\ epc' = epc + 1
            /\ failure' = failure
    /\ UNCHANGED <<platform, trace, wpc, projectName, cookiesBefore, projectExpectations, console>>
    /\ UNCHANGED <<pollVars, valVars, decVars, concVars, prefVars, catVars, anVars>>

\* await this.validateCookies(cookiesBefore, cookiesAfter): the validation
\* half of the workflow starts on the snapshot waitForConsentCookie returned
ExecValidateCookies ==
    /\ Statement = "validateCookies"
    /\ trace' = Append(trace, "validateCookies")
    /\ cookies' = result.value
    /\ wpc' = "lookup"
    /\ epc' = epc + 1
    /\ UNCHANGED <<vpc, expectations, validationResult>>
    /\ UNCHANGED <<platform, projectName, cookiesBefore, projectExpectations, console, failure>>
    /\ UNCHANGED <<pollVars, decVars, concVars, prefVars, catVars, anVars>>

ExecNext ==
    \/ ExecNavigate
    \/ ExecGetCookies
    \/ ExecOpenCustomizeModal
    \/ ExecHandleDesktopSpecificUI
    \/ ExecSavePreferences
    \/ ExecHandleBrowserSpecificWaits
    \/ ExecBrowserSpecificWaitSettles
    \/ ExecWaitForNetworkIdle
    \/ ExecWaitForConsentCookie
    \/ ExecFetch
    \/ FetchThrows
    \/ WaitForTimeout
    \/ WaitForTimeoutThrows
    \/ ExecConsentCookieSettles
    \/ ExecValidateCookies
    \/ GetExpectedCookies
    \/ LogCookieValidation
    \/ WorkflowValidateCookies
    \/ AssertRequiredCookies
    \/ ValidateConsentCookie
    \/ ValidateCookiesResume

ExecSpec == ExecInit /\ [][ExecNext]_vars

----------------------------------------------------------------------------
(* CookieConsentPage.customizeCookieSelection: the page object's own
   customization sequence *)

\* the statements of customizeCookieSelection(), in program order
SelectionOrder ==
    << "getCookies", "openCustomizeModal", "handleDesktopSpecificInteractions",
       "savePreferences", "getCookies" >>

\* the statement customizeCookieSelection() is about to run
SelectionStatement ==
    IF epc \in 1..Len(SelectionOrder) THEN SelectionOrder[epc] ELSE "none"

\* customizeCookieSelection(platform?): the argument is a platform name or
\* is left out
SelectionPlatforms == {"desktop", "mobile", "undefined"}

CustomizeCookieSelectionInit ==
    /\ epc = 1
    /\ platform \in SelectionPlatforms
    /\ trace = <<>>
    /\ WfIdle
    /\ PollIdle
    /\ ValIdle
    /\ DecIdle
    /\ ConcIdle
    /\ PrefIdle
    /\ CatIdle
    /\ AnIdle

\* const cookiesBefore = await this.getCookies(): cookies() resolves, or
\* rejects and the function rejects with it
SelectionGetCookiesBefore ==
    /\ epc = 1
    /\ trace' = Append(trace, SelectionStatement)
    /\ \/ \E before \in WorkflowCookiesBefore :
            /\ cookiesBefore' = before
            /\ epc' = epc + 1
            /\ UNCHANGED <<failure, result>>
       \/ /\ cookiesBefore' = cookiesBefore
          /\ epc' = 0
          /\ failure' = StepFailed("getCookies")
          /\ result' = [state |-> "rejected", reason |-> "getCookies"]
    /\ UNCHANGED <<platform, wpc, projectName, projectExpectations, console>>
    /\ UNCHANGED <<pc, maxRetries, retryCount, cookiesAfter, consentCookieSet, fetched, log>>
    /\ UNCHANGED <<valVars, decVars, concVars, prefVars, catVars, anVars>>

\* await this.openCustomizeModal(): the click or the wait may reject
SelectionOpenCustomizeModal ==
    /\ SelectionStatement = "openCustomizeModal"
    /\ trace' = Append(trace, SelectionStatement)
    /\ \E ok \in BOOLEAN :
         IF ok THEN epc' = epc + 1 /\ UNCHANGED <<failure, result>>
         ELSE /\ epc' = 0
              /\ failure' = StepFailed("openCustomizeModal")
              /\ result' = [state |-> "rejected", reason |-> "openCustomizeModal"]
    /\ UNCHANGED <<platform, wpc, projectName, cookiesBefore, projectExpectations, console>>
    /\ UNCHANGED <<pc, maxRetries, retryCount, cookiesAfter, consentCookieSet, fetched, log>>
    /\ UNCHANGED <<valVars, decVars, concVars, prefVars, catVars, anVars>>

\* await this.handleDesktopSpecificInteractions(platform): on desktop the
\* hover and the click are tried and a rejection is logged, not thrown; on
\* any other platform nothing is done
HandleDesktopSpecificInteractions ==
    /\ SelectionStatement = "handleDesktopSpecificInteractions"
    /\ trace' = Append(trace, SelectionStatement)
    /\ \E ok \in BOOLEAN :
         console' = IF platform = "desktop" /\ ~ok
                    THEN Append(console,
                           [line |-> "Desktop-specific elements not found or already handled, continuing..."])
                    ELSE console
    /\ epc' = epc + 1
    /\ UNCHANGED <<platform, wpc, projectName, cookiesBefore, projectExpectations, failure>>
    /\ UNCHANGED <<pollVars, valVars, decVars, concVars, prefVars, catVars, anVars>>

\* await this.savePreferences(): the click or the wait may reject
SelectionSavePreferences ==
    /\ SelectionStatement = "savePreferences"
    /\ trace' = Append(trace, SelectionStatement)
    /\ \E ok \in BOOLEAN :
         IF ok THEN epc' = epc + 1 /\ UNCHANGED <<failure, result>>
         ELSE /\ epc' = 0
              /\ failure' = StepFailed("savePreferences")
              /\ result' = [state |-> "rejected", reason |-> "savePreferences"]
    /\ UNCHANGED <<platform, wpc, projectName, cookiesBefore, projectExpectations, console>>
    /\ UNCHANGED <<pc, maxRetries, retryCount, cookiesAfter, consentCookieSet, fetched, log>>
    /\ UNCHANGED <<valVars, decVars, concVars, prefVars, catVars, anVars>>

\* const cookiesAfter = await this.getCookies();
\* return { before: cookiesBefore, after: cookiesAfter }
SelectionGetCookiesAfter ==
    /\ epc = Len(SelectionOrder)
    /\ trace' = Append(trace, SelectionStatement)
    /\ \/ \E after \in SeqUpTo(WorkflowCookies, MaxWorkflowCookies) :
            /\ cookiesAfter' = after
            /\ result' = [state |-> "fulfilled",
                          value |-> [before |-> cookiesBefore, after |-> after]]
            /\ epc' = epc + 1
            /\ failure' = failure
       \/ /\ cookiesAfter' = cookiesAfter
          /\ epc' = 0
          /\ failure' = StepFailed("getCookies")
          /\ result' = [state |-> "rejected", reason |-> "getCookies"]
    /\ UNCHANGED <<platform, wpc, projectName, cookiesBefore, projectExpectations, console>>
    /\ UNCHANGED <<pc, maxRetries, retryCount, consentCookieSet, fetched, log>>
    /\ UNCHANGED <<valVars, decVars, concVars, prefVars, catVars, anVars>>

CustomizeCookieSelectionNext ==
    \/ SelectionGetCookiesBefore
    \/ SelectionOpenCustomizeModal
    \/ HandleDesktopSpecificInteractions
    \/ SelectionSavePreferences
    \/ SelectionGetCookiesAfter

CustomizeCookieSelectionSpec ==
    CustomizeCookieSelectionInit /\ [][CustomizeCookieSelectionNext]_vars

----------------------------------------------------------------------------
(* test-1.spec.ts: CookiePreferencesPage and the per-category tests *)

\* const OPTIONAL_COOKIE_CATEGORIES
OPTIONAL_COOKIE_CATEGORIES == <<"Functional", "Analytics", "Advertisement", "Uncategorized">>

\* the categories as a set
OptionalCategories ==
    {OPTIONAL_COOKIE_CATEGORIES[j] : j \in 1..Len(OPTIONAL_COOKIE_CATEGORIES)}

\* the approaches of const attempts, by what they click
Attempts == <<"button:has-text(Cookie Preferences)", "text=Cookie Preferences",
              "button:has-text(Customize)">>

\* the line each approach writes before its first page call
AttemptingLine ==
    << [line |-> "Attempting to click footer Cookie Preferences button..."],
       [line |-> "Attempting footer link approach..."],
       [line |-> "Looking for Customize button..."] >>

\* What approach number k can come to on a page whose dialog is hidden: it
\* rejects before it has clicked (scrollIntoViewIfNeeded, the first
\* waitForTimeout or the click rejects), it rejects after its click went
\* through (waitForTimeout(2000) or isVisible rejects), or it clicks and
\* returns the dialog's visibility; approach 3 returns false without a click
\* when no Customize button is visible.
ApproachRuns(k) ==
    { [clicked |-> c, result |-> "threw", visible |-> FALSE] : c \in BOOLEAN }
    \cup { [clicked |-> TRUE, result |-> IF v THEN "true" ELSE "false", visible |-> v] :
             v \in BOOLEAN }
    \cup (IF k = 3
          THEN { [clicked |-> FALSE, result |-> "false", visible |-> FALSE] }
          ELSE {})

\* mutant: no try/catch around the approach, its rejection leaves the function
AfterAttemptNoCatch(k, run) ==
    IF run.result = "true" THEN "returned"
    ELSE IF run.result = "threw" THEN "rejected"
    ELSE IF k < Len(Attempts) THEN "attempt"
    ELSE "thrown"

\* the for loop after approach k (i = k - 1): return on success, otherwise,
\* caught rejection included, go on to the next approach or to the throw
AfterAttempt(k, run) ==
    IF run.result = "true" THEN "returned"
    ELSE IF k < Len(Attempts) THEN "attempt"
    ELSE "thrown"

\* the cookies the final getCookies() of the test may resolve with
FinalSnapshots ==
    {<<>>} \cup {<<k>> : k \in {d \in WorkflowCookies : d.name = Clck}}
    \cup ExecSnapshots

\* the predicate of cookiesAfter.find: the lowercased name includes
\* 'consent', 'cookie' or 'cky'
NamesConsent(cookie) ==
    LET name == ToLowerCase(cookie.name) IN
    \/ Includes(name, <<"c","o","n","s","e","n","t">>)
    \/ Includes(name, <<"c","o","o","k","i","e">>)
    \/ Includes(name, <<"c","k","y">>)

\* cookiesAfter.find(...): the first cookie the predicate holds for, or
\* undefined
FindNamedConsent(list) ==
    LET hits == {j \in 1..Len(list) : NamesConsent(list[j])} IN
    IF hits = {} THEN [type |-> "undefined"]
    ELSE list[CHOOSE j \in hits : \A h \in hits : j <= h]

\* the per-category test starts on a fresh page; the site decides which
\* checkboxes its dialog shows checked
CategoryTestInit ==
    /\ tpc = "navigate"
    /\ category \in OptionalCategories
    /\ checked \in [OptionalCategories -> BOOLEAN]
    /\ checkedAtSave = <<>>
    /\ categoryIndex = 0
    /\ isChecked = "undefined"
    /\ accepting = ""
    /\ PrefIdle
    /\ PollIdle
    /\ ValIdle
    /\ DecIdle
    /\ WfIdle
    /\ ConcIdle
    /\ ExecIdle
    /\ AnIdle

\* Step 1, cookiePreferencesPage.navigate(): the page loads, with or without
\* the Customize dialog showing. A per-category test then calls getCookies()
\* of step 2, an accept test calls openCookiePreferences.
TestNavigate ==
    /\ tpc = "navigate"
    /\ \/ /\ dialogVisible' \in BOOLEAN
          /\ IF accepting = ""
             THEN tpc' = "getCookies" /\ opc' = opc
             ELSE tpc' = "open" /\ opc' = "check"
          /\ failure' = failure
       \/ /\ dialogVisible' = dialogVisible
          /\ tpc' = "failed"
          /\ opc' = opc
          /\ failure' = StepFailed("navigate")
    /\ UNCHANGED <<attempt, clicks, outcomes>>
    /\ UNCHANGED <<category, checked, checkedAtSave, categoryIndex, isChecked, accepting>>
    /\ UNCHANGED <<wpc, projectName, cookiesBefore, projectExpectations, console>>
    /\ UNCHANGED <<pollVars, valVars, decVars, concVars, execVars, anVars>>

\* Step 2, const cookiesBefore = await getCookies(): cookies() resolves, the
\* count is logged and openCookiePreferences of step 3 is called; or
\* cookies() rejects and the test fails there
TestGetCookies ==
    /\ tpc = "getCookies"
    /\ \/ /\ \E before \in WorkflowCookiesBefore :
               /\ cookiesBefore' = before
               /\ console' = Append(console,
                      [line |-> "Initial cookies count: ${cookiesBefore.length}",
                       length |-> Len(before)])
          /\ tpc' = "open"
          /\ opc' = "check"
          /\ failure' = failure
       \/ /\ tpc' = "failed"
          /\ failure' = StepFailed("getCookies")
          /\ UNCHANGED <<cookiesBefore, console, opc>>
    /\ UNCHANGED <<attempt, dialogVisible, clicks, outcomes>>
    /\ UNCHANGED <<category, checked, checkedAtSave, categoryIndex, isChecked, accepting>>
    /\ UNCHANGED <<wpc, projectName, projectExpectations>>
    /\ UNCHANGED <<pollVars, valVars, decVars, concVars, execVars, anVars>>

\* where the test goes on when openCookiePreferences returns: to the
\* isChecked() of verifyCategoryIsEnabled when that function made the call;
\* otherwise to step 4 in a per-category test, to the click on the accept
\* button in an accept test
AfterOpen ==
    IF tpc = "verify" THEN "isChecked"
    ELSE IF accepting = "" THEN "disable"
    ELSE "accept"

\* openCookiePreferences: const existingDialog = await ...isVisible();
\* if (existingDialog) return, and in step 3 of a per-category test the
\* loop of disableAllOptionalCookies starts; otherwise the loop starts approach 1, which
\* writes its line and makes its first page call. When isVisible() rejects,
\* openCookiePreferences rejects and the test fails.
CheckExistingDialog ==
    /\ opc = "check"
    /\ \/ /\ IF dialogVisible
             THEN /\ opc' = "returned"
                  /\ tpc' = AfterOpen
                  /\ categoryIndex' = IF AfterOpen = "disable" THEN 1 ELSE categoryIndex
                  /\ console' = console
             ELSE /\ opc' = "attempt"
                  /\ tpc' = tpc
                  /\ categoryIndex' = categoryIndex
                  /\ console' = Append(console, AttemptingLine[1])
          /\ failure' = failure
       \/ /\ opc' = "rejected"
          /\ tpc' = "failed"
          /\ failure' = StepFailed("openCookiePreferences")
          /\ UNCHANGED <<categoryIndex, console>>
    /\ UNCHANGED <<attempt, dialogVisible, clicks, outcomes>>
    /\ UNCHANGED <<category, checked, checkedAtSave, isChecked, accepting>>
    /\ UNCHANGED <<wpc, projectName, cookiesBefore, projectExpectations>>
    /\ UNCHANGED <<pollVars, valVars, decVars, concVars, execVars, anVars>>

\* openCookiePreferences: approach k has come to run; the loop logs its
\* success and returns, or logs the caught rejection, and goes on to the next
\* approach, which writes its line and makes its first page call, or to the
\* throw after the last one
ApproachCameTo(k, run) ==
    LET next == AfterAttempt(k, run) IN
    /\ dialogVisible' = run.visible
    /\ outcomes' = Append(outcomes,
           [approach |-> k, result |-> run.result, visible |-> run.visible])
    /\ console' = console \o
           (IF run.result = "true"
            THEN << [line |-> "Cookie preferences dialog opened successfully (attempt ${i + 1})",
                     attempt |-> k] >>
            ELSE IF run.result = "threw"
            THEN << [line |-> "Attempt ${i + 1} failed: ${error}", attempt |-> k] >>
            ELSE <<>>) \o
           (IF next = "attempt" THEN << AttemptingLine[k + 1] >> ELSE <<>>)
    /\ opc' = next
    /\ attempt' = IF next = "returned" THEN attempt ELSE attempt + 1
    /\ tpc' = IF next = "returned" THEN AfterOpen
              ELSE IF next = "attempt" THEN tpc ELSE "failed"
    /\ categoryIndex' = IF next = "returned" /\ AfterOpen = "disable" THEN 1
                        ELSE categoryIndex
    /\ failure' = IF next = "thrown"
                  THEN [type |-> "Error",
                        message |-> "Could not open cookie preferences dialog after all attempts"]
                  ELSE IF next = "rejected"
                  THEN StepFailed(Attempts[k])
                  ELSE failure

\* attempts[i]() up to its click: the click goes through and
\* waitForTimeout(2000) starts, or the approach ends before any click
TryAttempt ==
    /\ opc = "attempt"
    /\ LET k == attempt + 1 IN
       \/ /\ clicks' = Append(clicks, k)
          /\ opc' = "clicked"
          /\ UNCHANGED <<attempt, dialogVisible, outcomes, tpc, categoryIndex, console, failure>>
       \/ /\ \E run \in {r \in ApproachRuns(k) : ~r.clicked} : ApproachCameTo(k, run)
          /\ clicks' = clicks
    /\ UNCHANGED <<category, checked, checkedAtSave, isChecked, accepting>>
    /\ UNCHANGED <<wpc, projectName, cookiesBefore, projectExpectations>>
    /\ UNCHANGED <<pollVars, valVars, decVars, concVars, execVars, anVars>>

\* attempts[i]() after its click: waitForTimeout(2000) and isVisible()
\* resolve with the dialog's visibility, or one of them rejects
AttemptSettles ==
    /\ opc = "clicked"
    /\ \E run \in {r \in ApproachRuns(attempt + 1) : r.clicked} :
         ApproachCameTo(attempt + 1, run)
    /\ UNCHANGED <<clicks, category, checked, checkedAtSave, isChecked, accepting>>
    /\ UNCHANGED <<wpc, projectName, cookiesBefore, projectExpectations>>
    /\ UNCHANGED <<pollVars, valVars, decVars, concVars, execVars, anVars>>

\* console.log(`Could not find or disable ${category} checkbox: ${error}`)
CouldNotDisableLine(name) ==
    [line |-> "Could not find or disable ${category} checkbox: ${error}",
     category |-> name]

\* Step 4, disableAllOptionalCookies(): one pass of its loop. The checkbox
\* of the category is read and, when checked, unchecked; or isChecked() or
\* uncheck() rejects (actionTimeout), which is caught and logged, and the
\* checkbox stays as it was. After the last pass the function returns and
\* enableSpecificCookieCategory of step 5 is called.
DisableAllOptionalCookies ==
    /\ tpc = "disable"
    /\ LET name == OPTIONAL_COOKIE_CATEGORIES[categoryIndex] IN
       \/ /\ checked' = [checked EXCEPT ![name] = FALSE]
          /\ console' = console
       \/ /\ checked' = checked
          /\ console' = Append(console, CouldNotDisableLine(name))
    /\ categoryIndex' = categoryIndex + 1
    /\ tpc' = IF categoryIndex < Len(OPTIONAL_COOKIE_CATEGORIES) THEN "disable" ELSE "enable"
    /\ UNCHANGED <<category, checkedAtSave, isChecked, accepting>>
    /\ UNCHANGED <<wpc, projectName, cookiesBefore, projectExpectations, failure>>
    /\ UNCHANGED <<pollVars, valVars, decVars, concVars, execVars, prefVars, anVars>>

\* Step 5, enableSpecificCookieCategory(category): check() unless the
\* checkbox reads checked, then the line, and the click of savePreferences of
\* step 6 starts; a rejection ends the test
EnableSpecificCookieCategory ==
    /\ tpc = "enable"
    /\ \/ /\ checked' = [checked EXCEPT ![category] = TRUE]
          /\ console' = Append(console,
                 [line |-> "Enabled ${category} cookies", category |-> category])
          /\ tpc' = "save"
          /\ failure' = failure
       \/ /\ checked' = checked
          /\ console' = console
          /\ tpc' = "failed"
          /\ failure' = StepFailed("enableSpecificCookieCategory")
    /\ UNCHANGED <<category, checkedAtSave, categoryIndex, isChecked, accepting>>
    /\ UNCHANGED <<wpc, projectName, cookiesBefore, projectExpectations>>
    /\ UNCHANGED <<pollVars, valVars, decVars, concVars, execVars, prefVars, anVars>>

\* Step 6, savePreferences(): Save My Preferences is clicked with the
\* checkboxes as they are and waitForTimeout(2000) starts; or the click
\* rejects and the test fails
SavePreferences ==
    /\ tpc = "save"
    /\ \/ /\ checkedAtSave' = checked
          /\ tpc' = "saveWait"
          /\ failure' = failure
       \/ /\ checkedAtSave' = checkedAtSave
          /\ tpc' = "failed"
          /\ failure' = StepFailed("savePreferences")
    /\ UNCHANGED <<category, checked, categoryIndex, isChecked, accepting>>
    /\ UNCHANGED <<wpc, projectName, cookiesBefore, projectExpectations, console>>
    /\ UNCHANGED <<pollVars, valVars, decVars, concVars, execVars, prefVars, anVars>>

\* savePreferences() after its click: waitForTimeout(2000) resolves and the
\* try block leaves the dialog closed (it had closed, or Close was clicked)
\* or open (a rejection in the block is caught); the line is written and
\* verifyCategoryIsEnabled of step 7 calls openCookiePreferences, a new run
\* of its loop. When waitForTimeout(2000) rejects, the test fails.
SavePreferencesSettles ==
    /\ tpc = "saveWait"
    /\ \/ /\ dialogVisible' \in BOOLEAN
          /\ console' = Append(console,
                 [line |-> "Saved preferences for ${category} cookies", category |-> category])
          /\ tpc' = "verify"
          /\ opc' = "check"
          /\ attempt' = 0
          /\ clicks' = <<>>
          /\ outcomes' = <<>>
          /\ failure' = failure
       \/ /\ tpc' = "failed"
          /\ failure' = StepFailed("savePreferences")
          /\ UNCHANGED <<dialogVisible, console, opc, attempt, clicks, outcomes>>
    /\ UNCHANGED <<category, checked, checkedAtSave, categoryIndex, isChecked, accepting>>
    /\ UNCHANGED <<wpc, projectName, cookiesBefore, projectExpectations>>
    /\ UNCHANGED <<pollVars, valVars, decVars, concVars, execVars, anVars>>

\* verifyCategoryIsEnabled: const isChecked = await
\* categoryCheckbox.isChecked() on the reopened dialog, which shows what the
\* site stored; then the click on Close starts. A rejection ends the test.
VerifyCategoryIsEnabled ==
    /\ tpc = "isChecked"
    /\ \/ /\ isChecked' \in {"true", "false"}
          /\ tpc' = "close"
          /\ failure' = failure
       \/ /\ isChecked' = isChecked
          /\ tpc' = "failed"
          /\ failure' = StepFailed("verifyCategoryIsEnabled")
    /\ UNCHANGED <<category, checked, checkedAtSave, categoryIndex, accepting>>
    /\ UNCHANGED <<wpc, projectName, cookiesBefore, projectExpectations, console>>
    /\ UNCHANGED <<pollVars, valVars, decVars, concVars, execVars, prefVars, anVars>>

\* Step 7 of a per-category test: verifyCategoryIsEnabled closes the dialog
\* and returns isChecked; expect(isEnabled).toBe(true) holds, the line is
\* written and getCookies() of step 8 is called, or it fails the test. When
\* the click on Close or waitForSelector rejects, the test fails.
VerifyCloses ==
    /\ tpc = "close"
    /\ accepting = ""
    /\ \/ /\ dialogVisible' = FALSE
          /\ IF isChecked = "true"
             THEN /\ console' = Append(console,
                         [line |-> "Verified ${category} cookies remain enabled after save",
                          category |-> category])
                  /\ tpc' = "finalCookies"
                  /\ failure' = failure
             ELSE /\ console' = console
                  /\ tpc' = "failed"
                  /\ failure' = ExpectFailed("expect(isEnabled).toBe(true)")
       \/ /\ dialogVisible' = dialogVisible
          /\ console' = console
          /\ tpc' = "failed"
          /\ failure' = StepFailed("verifyCategoryIsEnabled")
    /\ UNCHANGED <<opc, attempt, clicks, outcomes>>
    /\ UNCHANGED <<category, checked, checkedAtSave, categoryIndex, isChecked, accepting>>
    /\ UNCHANGED <<wpc, projectName, cookiesBefore, projectExpectations>>
    /\ UNCHANGED <<pollVars, valVars, decVars, concVars, execVars, anVars>>

\* Steps 8 and 9: const cookiesAfter = await getCookies(), the count is
\* logged, the consent cookie is looked for by name and
\* expect(consentCookie).toBeDefined() holds, with the two closing lines, or
\* fails the test. When cookies() rejects, the test fails.
TestFinalCookies ==
    /\ tpc = "finalCookies"
    /\ \/ \E after \in FinalSnapshots :
            LET consentCookie == FindNamedConsent(after)
                count == [line |-> "Final cookies count: ${cookiesAfter.length}",
                          length |-> Len(after)]
            IN  /\ cookiesAfter' = after
                /\ IF consentCookie = [type |-> "undefined"]
                   THEN /\ console' = Append(console, count)
                        /\ tpc' = "failed"
                        /\ failure' = ExpectFailed("expect(consentCookie).toBeDefined()")
                   ELSE /\ console' = console \o
                               << count,
                                  [line |-> "Found consent cookie: ${consentCookie?.name}",
                                   name |-> consentCookie.name],
                                  [line |-> "Successfully completed ${category} cookie preference test",
                                   category |-> category] >>
                        /\ tpc' = "passed"
                        /\ failure' = failure
       \/ /\ cookiesAfter' = cookiesAfter
          /\ console' = console
          /\ tpc' = "failed"
          /\ failure' = StepFailed("getCookies")
    /\ UNCHANGED <<category, checked, checkedAtSave, categoryIndex, isChecked, accepting>>
    /\ UNCHANGED <<wpc, projectName, cookiesBefore, projectExpectations>>
    /\ UNCHANGED <<pc, maxRetries, retryCount, consentCookieSet, result, fetched, log>>
    /\ UNCHANGED <<valVars, decVars, concVars, execVars, prefVars, anVars>>

CategoryTestNext ==
    \/ TestNavigate
    \/ TestGetCookies
    \/ CheckExistingDialog
    \/ TryAttempt
    \/ AttemptSettles
    \/ DisableAllOptionalCookies
    \/ EnableSpecificCookieCategory
    \/ SavePreferences
    \/ SavePreferencesSettles
    \/ VerifyCategoryIsEnabled
    \/ VerifyCloses
    \/ TestFinalCookies

CategoryTestSpec == CategoryTestInit /\ [][CategoryTestNext]_vars

\* the buttons of the two accept tests with what each test expects of every
\* optional category, the line it writes per category and its closing line
AcceptTests ==
    ("Accept necessary only" :>
        [isEnabled |-> "false",
         expect |-> "expect(isEnabled).toBe(false)",
         verified |-> "Verified ${category} cookies are disabled with \"necessary only\"",
         success |-> "Successfully verified \"Accept necessary only\" functionality"])
    @@ ("Accept all" :>
        [isEnabled |-> "true",
         expect |-> "expect(isEnabled).toBe(true)",
         verified |-> "Verified ${category} cookies are enabled with \"accept all\"",
         success |-> "Successfully verified \"Accept all\" functionality"])

\* an accept test starts on a fresh page
AcceptTestInit ==
    /\ tpc = "navigate"
    /\ accepting \in DOMAIN AcceptTests
    /\ category = ""
    /\ checked = <<>>
    /\ checkedAtSave = <<>>
    /\ categoryIndex = 0
    /\ isChecked = "undefined"
    /\ PrefIdle
    /\ PollIdle
    /\ ValIdle
    /\ DecIdle
    /\ WfIdle
    /\ ConcIdle
    /\ ExecIdle
    /\ AnIdle

\* await page.getByRole('button', { name: ... }).click() and
\* waitForTimeout(1000) resolve, with the dialog closed by the click or left
\* open; the loop over the categories starts and verifyCategoryIsEnabled
\* calls openCookiePreferences. A rejection ends the test.
AcceptClick ==
    /\ tpc = "accept"
    /\ \/ /\ dialogVisible' \in BOOLEAN
          /\ categoryIndex' = 1
          /\ category' = OPTIONAL_COOKIE_CATEGORIES[1]
          /\ tpc' = "verify"
          /\ opc' = "check"
          /\ attempt' = 0
          /\ clicks' = <<>>
          /\ outcomes' = <<>>
          /\ failure' = failure
       \/ /\ tpc' = "failed"
          /\ failure' = StepFailed(accepting)
          /\ UNCHANGED <<dialogVisible, categoryIndex, category, opc, attempt, clicks, outcomes>>
    /\ UNCHANGED <<checked, checkedAtSave, isChecked, accepting>>
    /\ UNCHANGED <<wpc, projectName, cookiesBefore, projectExpectations, console>>
    /\ UNCHANGED <<pollVars, valVars, decVars, concVars, execVars, anVars>>

\* One pass of the loop of an accept test ends: verifyCategoryIsEnabled
\* closes the dialog and returns isChecked; the expect on isEnabled holds
\* and the line is written, or it fails the test. After the line the next
\* category's verifyCategoryIsEnabled calls openCookiePreferences, or the
\* loop is over and the closing line is written. When the click on Close or
\* waitForSelector rejects, the test fails.
AcceptVerifyCloses ==
    /\ tpc = "close"
    /\ accepting \in DOMAIN AcceptTests
    /\ \/ /\ dialogVisible' = FALSE
          /\ LET this == AcceptTests[accepting]
                 verified == [line |-> this.verified, category |-> category]
             IN  IF isChecked # this.isEnabled
                 THEN /\ tpc' = "failed"
                      /\ failure' = ExpectFailed(this.expect)
                      /\ UNCHANGED <<console, categoryIndex, category, opc, attempt, clicks, outcomes>>
                 ELSE IF categoryIndex < Len(OPTIONAL_COOKIE_CATEGORIES)
                 THEN /\ console' = Append(console, verified)
                      /\ categoryIndex' = categoryIndex + 1
                      /\ category' = OPTIONAL_COOKIE_CATEGORIES[categoryIndex + 1]
                      /\ tpc' = "verify"
                      /\ opc' = "check"
                      /\ attempt' = 0
                      /\ clicks' = <<>>
                      /\ outcomes' = <<>>
                      /\ failure' = failure
                 ELSE /\ console' = console \o << verified, [line |-> this.success] >>
                      /\ tpc' = "passed"
                      /\ failure' = failure
                      /\ UNCHANGED <<categoryIndex, category, opc, attempt, clicks, outcomes>>
       \/ /\ tpc' = "failed"
          /\ failure' = StepFailed("verifyCategoryIsEnabled")
          /\ UNCHANGED <<dialogVisible, console, categoryIndex, category, opc, attempt, clicks, outcomes>>
    /\ UNCHANGED <<checked, checkedAtSave, isChecked, accepting>>
    /\ UNCHANGED <<wpc, projectName, cookiesBefore, projectExpectations>>
    /\ UNCHANGED <<pollVars, valVars, decVars, concVars, execVars, anVars>>

AcceptTestNext ==
    \/ TestNavigate
    \/ CheckExistingDialog
    \/ TryAttempt
    \/ AttemptSettles
    \/ AcceptClick
    \/ VerifyCategoryIsEnabled
    \/ AcceptVerifyCloses

AcceptTestSpec == AcceptTestInit /\ [][AcceptTestNext]_vars

\* closeCookieDialog() is called on a page with or without the dialog
CloseCookieDialogInit ==
    /\ tpc = "closeCookieDialog"
    /\ dialogVisible \in BOOLEAN
    /\ opc = "idle"
    /\ attempt = 0
    /\ clicks = <<>>
    /\ outcomes = <<>>
    /\ category = ""
    /\ checked = <<>>
    /\ checkedAtSave = <<>>
    /\ categoryIndex = 0
    /\ isChecked = "undefined"
    /\ accepting = ""
    /\ PollIdle
    /\ ValIdle
    /\ DecIdle
    /\ WfIdle
    /\ ConcIdle
    /\ ExecIdle
    /\ AnIdle

\* closeCookieDialog(): the click on Close and waitForSelector(hidden)
\* resolve and the dialog is gone, or one of them rejects
CloseCookieDialog ==
    /\ tpc = "closeCookieDialog"
    /\ \/ /\ dialogVisible' = FALSE
          /\ tpc' = "returned"
          /\ failure' = failure
       \/ /\ dialogVisible' = dialogVisible
          /\ tpc' = "failed"
          /\ failure' = StepFailed("closeCookieDialog")
    /\ UNCHANGED <<opc, attempt, clicks, outcomes>>
    /\ UNCHANGED <<category, checked, checkedAtSave, categoryIndex, isChecked, accepting>>
    /\ UNCHANGED <<wpc, projectName, cookiesBefore, projectExpectations, console>>
    /\ UNCHANGED <<pollVars, valVars, decVars, concVars, execVars, anVars>>

CloseCookieDialogSpec == CloseCookieDialogInit /\ [][CloseCookieDialog]_vars

----------------------------------------------------------------------------
(* analyze-cookies.js: analyzeCookieData over the exported run files *)

\* most entries of the directory data-export
MaxFiles == 2

\* the projects the exported files come from
AnalyzeProjects ==
    { <<"c","h","r","o","m","i","u","m">>,
      <<"M","o","b","i","l","e"," ","S","a","f","a","r","i">> }

\* the post-customization cookie lists of the exported files; the browser
\* context returns one entry per cookie, so a name@domain pair can occur twice
\* (two paths)
AnalyzeCookieLists ==
    LET a == [name |-> Clck, domain |-> BASE_DOMAIN]
        b == [name |-> CONSENT_COOKIE_NAME, domain |-> WWW_DOMAIN]
    IN  { <<>>, <<a>>, <<b>>, <<a, b>>, <<a, a>> }

\* what JSON.parse returns for one exported file
AnalyzeFiles ==
    { [project |-> p,
       cookieCountBefore |-> 0,
       cookieCountAfter |-> Len(cs),
       customizationResults |-> [cookieCountChange |-> Len(cs),
                                 consentCookieUpdated |-> u],
       cookiesAfter |-> cs] :
         p \in AnalyzeProjects, cs \in AnalyzeCookieLists, u \in BOOLEAN }

\* '.json'
JsonSuffix == <<".","j","s","o","n">>

\* the names readdir may list
AnalyzeFileNames ==
    { <<"1">> \o JsonSuffix, <<"2">> \o JsonSuffix, <<"R","E","A","D","M","E">> }

\* f.endsWith('.json')
EndsWith(str, suffix) ==
    /\ Len(str) >= Len(suffix)
    /\ SubSeq(str, Len(str) - Len(suffix) + 1, Len(str)) = suffix

\* An entry of data-export: its name, whether fs.readFile resolves on it or
\* the error it rejects with, and what JSON.parse makes of its content, the
\* parsed export or a SyntaxError. Only the names ending in .json are read.
AnalyzeEntries ==
    { [name |-> n, read |-> "ok", parse |-> "ok", data |-> d] :
        n \in {m \in AnalyzeFileNames : EndsWith(m, JsonSuffix)}, d \in AnalyzeFiles }
    \cup { [name |-> n, read |-> "ok", parse |-> "SyntaxError", data |-> Null] :
             n \in AnalyzeFileNames }
    \cup { [name |-> n, read |-> "EACCES", parse |-> "SyntaxError", data |-> Null] :
             n \in {m \in AnalyzeFileNames : EndsWith(m, JsonSuffix)} }

\* files.filter(f => f.endsWith('.json'))
JsonFiles(entries) == SelectSeq(entries, LAMBDA f : EndsWith(f.name, JsonSuffix))

\* the run pushed for one file
RunOf(data) ==
    [cookieCountBefore |-> data.cookieCountBefore,
     cookieCountAfter |-> data.cookieCountAfter,
     cookieCountChange |-> data.customizationResults.cookieCountChange,
     consentCookieUpdated |-> data.customizationResults.consentCookieUpdated,
     cookiesAfter |-> [j \in 1..Len(data.cookiesAfter) |->
                          [name |-> data.cookiesAfter[j].name,
                           domain |-> data.cookiesAfter[j].domain]]]

\* the entry a project gets when its first file is met
NewProject ==
    [runs |-> <<>>, consistentCookiesAfter |-> <<>>, avgCookieChange |-> 0,
     alwaysUpdatesConsent |-> TRUE]

\* the body of the first loop after JSON.parse: the project's entry is
\* created when missing, the run is pushed, alwaysUpdatesConsent is cleared
\* by a run that did not update the consent cookie
PushRun(data, grouped) ==
    LET project == data.project
        entry == IF project \in DOMAIN grouped THEN grouped[project] ELSE NewProject
        pushed == [entry EXCEPT
                     !.runs = Append(@, RunOf(data)),
                     !.alwaysUpdatesConsent =
                         IF ~data.customizationResults.consentCookieUpdated
                         THEN FALSE ELSE @]
    IN  [p \in DOMAIN grouped \cup {project} |->
            IF p = project THEN pushed ELSE grouped[p]]

\* const key = `${cookie.name}@${cookie.domain}`
AnalyzeKey(cookie) == cookie.name \o <<"@">> \o cookie.domain

\* the keys of all cookies of all runs, in the order forEach visits them
RECURSIVE VisitedKeys(_)
VisitedKeys(runs) ==
    IF Len(runs) = 0 THEN <<>>
    ELSE [j \in 1..Len(runs[1].cookiesAfter) |-> AnalyzeKey(runs[1].cookiesAfter[j])]
         \o VisitedKeys(Tail(runs))

\* cookieCountsAfter[key] = (cookieCountsAfter[key] || 0) + 1 for each visited
\* key: the entries of the object in insertion order
RECURSIVE CookieCountsAfter(_, _)
CookieCountsAfter(keys, counts) ==
    IF Len(keys) = 0 THEN counts
    ELSE LET key == keys[1]
             at == {j \in 1..Len(counts) : counts[j].key = key}
         IN  CookieCountsAfter(Tail(keys),
                 IF at = {}
                 THEN Append(counts, [key |-> key, count |-> 1])
                 ELSE [j \in 1..Len(counts) |->
                          IF j \in at
                          THEN [key |-> key, count |-> counts[j].count + 1]
                          ELSE counts[j]])

\* .filter(([key, count]) => count === data.runs.length).map(([key]) => key)
RECURSIVE ConsistentKeys(_, _)
ConsistentKeys(counts, n) ==
    IF Len(counts) = 0 THEN <<>>
    ELSE (IF counts[1].count = n THEN <<counts[1].key>> ELSE <<>>)
         \o ConsistentKeys(Tail(counts), n)

\* changes.reduce((a, b) => a + b, 0)
RECURSIVE SumOf(_)
SumOf(changes) == IF Len(changes) = 0 THEN 0 ELSE changes[1] + SumOf(Tail(changes))

\* Math.round(sum / length): the nearest integer, halves rounded up
MathRound(sum, length) == (2 * sum + length) \div (2 * length)

\* the body of the second loop: the entry of one project after the analysis
AnalyzeProject(entry) ==
    LET runs == entry.runs
        changes == [j \in 1..Len(runs) |-> runs[j].cookieCountChange]
    IN  [runs |-> runs,
         consistentCookiesAfter |->
             ConsistentKeys(CookieCountsAfter(VisitedKeys(runs), <<>>), Len(runs)),
         avgCookieChange |-> MathRound(SumOf(changes), Len(changes)),
         minChange |-> CHOOSE m \in {changes[j] : j \in 1..Len(changes)} :
                           \A j \in 1..Len(changes) : m <= changes[j],
         maxChange |-> CHOOSE m \in {changes[j] : j \in 1..Len(changes)} :
                           \A j \in 1..Len(changes) : m >= changes[j],
         alwaysUpdatesConsent |-> entry.alwaysUpdatesConsent]

\* projectData after the second loop
AnalyzePatterns(grouped) ==
    [project \in DOMAIN grouped |-> AnalyzeProject(grouped[project])]

\* String.prototype.toUpperCase()
ToUpperCase(s) ==
    [i \in 1..Len(s) |->
        IF \E u \in DOMAIN UpperToLower : UpperToLower[u] = s[i]
        THEN CHOOSE u \in DOMAIN UpperToLower : UpperToLower[u] = s[i]
        ELSE s[i]]

\* Object.entries(projectData): the projects in the order their first file
\* was read
RECURSIVE ProjectOrder(_)
ProjectOrder(entries) ==
    IF Len(entries) = 0 THEN <<>>
    ELSE LET fore == ProjectOrder(SubSeq(entries, 1, Len(entries) - 1))
             project == entries[Len(entries)].data.project
         IN  IF \E j \in 1..Len(fore) : fore[j] = project
             THEN fore ELSE Append(fore, project)

\* the lines of the report for one project
ReportOf(project, entry) ==
    << [line |-> "${project.toUpperCase()}", project |-> ToUpperCase(project)],
       [line |-> "   Runs analyzed: ${data.runs.length}", length |-> Len(entry.runs)],
       [line |-> "   Always updates consent: ${data.alwaysUpdatesConsent}",
        alwaysUpdatesConsent |-> entry.alwaysUpdatesConsent],
       [line |-> "   Cookie count change: ${data.minChange}-${data.maxChange} (avg: ${data.avgCookieChange})",
        minChange |-> entry.minChange, maxChange |-> entry.maxChange,
        avgCookieChange |-> entry.avgCookieChange],
       [line |-> "   Consistent cookies after customization:"] >>
    \o [j \in 1..Len(entry.consistentCookiesAfter) |->
           [line |-> "     ${cookie}", cookie |-> entry.consistentCookiesAfter[j]]]
    \o << [line |-> ""] >>

\* the report: the heading and the lines of each project
RECURSIVE Report(_, _)
Report(order, analysed) ==
    IF Len(order) = 0 THEN << [line |-> "=== COOKIE ANALYSIS RESULTS ==="] >>
    ELSE Report(SubSeq(order, 1, Len(order) - 1), analysed)
         \o ReportOf(order[Len(order)], analysed[order[Len(order)]])

\* .catch(console.error)
ConsoleError(error) == [line |-> "console.error", error |-> error]

\* the number of files read so far: every file read has pushed one run
FilesRead ==
    Cardinality(UNION { {<<p, j>> : j \in 1..Len(projectData[p].runs)} :
                           p \in DOMAIN projectData })

\* the script is started on a directory whose entries have different names
AnalyzeInit ==
    /\ apc = "readdir"
    /\ files \in {entries \in SeqUpTo(AnalyzeEntries, MaxFiles) :
                     \A i, j \in 1..Len(entries) :
                         entries[i].name = entries[j].name => i = j}
    /\ projectData = <<>>
    /\ PollIdle
    /\ ValIdle
    /\ DecIdle
    /\ WfIdle
    /\ ConcIdle
    /\ ExecIdle
    /\ PrefIdle
    /\ CatIdle

\* the two loops after the last file was read, and the report
AnalyzeAndReport(grouped) ==
    LET analysed == AnalyzePatterns(grouped) IN
    /\ projectData' = analysed
    /\ console' = console \o Report(ProjectOrder(JsonFiles(files)), analysed)
    /\ apc' = "done"

\* const files = await fs.readdir(dataDir): it resolves, the names are
\* filtered and the first file is read, or with no .json file the report is
\* written at once; or it rejects (no data-export directory) and the error
\* is written by console.error
AnalyzeReadDir ==
    /\ apc = "readdir"
    /\ \/ IF Len(JsonFiles(files)) = 0
          THEN AnalyzeAndReport(projectData)
          ELSE /\ apc' = "readFile"
               /\ UNCHANGED <<projectData, console>>
       \/ /\ apc' = "caught"
          /\ console' = Append(console, ConsoleError("ENOENT"))
          /\ projectData' = projectData
    /\ UNCHANGED files
    /\ UNCHANGED <<wpc, projectName, cookiesBefore, projectExpectations, failure>>
    /\ UNCHANGED <<pollVars, valVars, decVars, concVars, execVars, prefVars, catVars>>

\* const content = await fs.readFile(filePath, 'utf8') settles: the content
\* is parsed and its run pushed, and the next file is read or, after the
\* last one, the analysis and the report are made; when readFile rejects or
\* JSON.parse throws, the error is written by console.error
AnalyzeReadFile ==
    /\ apc = "readFile"
    /\ LET file == JsonFiles(files)[FilesRead + 1] IN
       IF file.read # "ok"
       THEN /\ apc' = "caught"
            /\ console' = Append(console, ConsoleError(file.read))
            /\ projectData' = projectData
       ELSE IF file.parse # "ok"
       THEN /\ apc' = "caught"
            /\ console' = Append(console, ConsoleError(file.parse))
            /\ projectData' = projectData
       ELSE IF FilesRead + 1 < Len(JsonFiles(files))
       THEN /\ projectData' = PushRun(file.data, projectData)
            /\ UNCHANGED <<apc, console>>
       ELSE AnalyzeAndReport(PushRun(file.data, projectData))
    /\ UNCHANGED files
    /\ UNCHANGED <<wpc, projectName, cookiesBefore, projectExpectations, failure>>
    /\ UNCHANGED <<pollVars, valVars, decVars, concVars, execVars, prefVars, catVars>>

AnalyzeNext == AnalyzeReadDir \/ AnalyzeReadFile

AnalyzeSpec == AnalyzeInit /\ [][AnalyzeNext]_vars

----------------------------------------------------------------------------
(* validateConsentCookieContent on the values the consent banner writes     *)

\* the keys of a consent value, in the order the banner writes them
ConsentKeys ==
    << <<"c","o","n","s","e","n","t">>,
       <<"a","c","t","i","o","n">>,
       <<"n","e","c","e","s","s","a","r","y">>,
       <<"f","u","n","c","t","i","o","n","a","l">>,
       <<"a","n","a","l","y","t","i","c","s">>,
       <<"p","e","r","f","o","r","m","a","n","c","e">>,
       <<"a","d","v","e","r","t","i","s","e","m","e","n","t">>,
       <<"o","t","h","e","r">> >>

\* the orders the keys are written in: the written order rotated, the
\* reversed order rotated, and the written order with two keys exchanged
Rotation(k) == [i \in 1..Len(ConsentKeys) |-> ((i + k - 1) % Len(ConsentKeys)) + 1]
Reversal(k) == [i \in 1..Len(ConsentKeys) |-> Len(ConsentKeys) + 1 - Rotation(k)[i]]
Transposition(a, b) ==
    [i \in 1..Len(ConsentKeys) |-> IF i = a THEN b ELSE IF i = b THEN a ELSE i]
KeyOrders ==
    { Rotation(k) : k \in 0..(Len(ConsentKeys) - 1) }
    \cup { Reversal(k) : k \in 0..(Len(ConsentKeys) - 1) }
    \cup { Transposition(a, b) : a, b \in 1..Len(ConsentKeys) }

\* one token '<key>:yes' or '<key>:no'
ConsentToken(k, yes) ==
    ConsentKeys[k] \o <<":">> \o (IF yes THEN <<"y","e","s">> ELSE <<"n","o">>)

\* the value written for an order of the keys and an answer for each key
ConsentValue(order, answers) ==
    Join([i \in 1..Len(ConsentKeys) |-> ConsentToken(order[i], answers[order[i]])],
         <<";">>)

ConsentValues ==
    { ConsentValue(order, answers) :
          order \in KeyOrders, answers \in [1..Len(ConsentKeys) -> BOOLEAN] }

\* the decoder is handed a snapshot holding the consent cookie with one of
\* these values
ConsentValueInit ==
    /\ dpc = "call"
    /\ necessaryOnly = "idle"
    /\ consentContent = NotFoundContent
    /\ vpc = "idle"
    /\ cookies \in { <<[name |-> CONSENT_COOKIE_NAME, domain |-> WWW_DOMAIN,
                        value |-> v]>> : v \in ConsentValues }
    /\ expectations = [requiredCookies |-> <<>>]
    /\ validationResult = [isValid |-> FALSE, missingRequired |-> <<>>,
                           foundOptional |-> 0, totalOptional |-> 0]
    /\ PollIdle
    /\ WfIdle
    /\ ConcIdle
    /\ UiIdle

ConsentValueNext == ValidateConsentCookieContent

ConsentValueSpec == ConsentValueInit /\ [][ConsentValueNext]_vars

----------------------------------------------------------------------------
(* CookieValidator.validateCookies against the entries of the registry      *)

\* longest snapshot validated against a registry entry
MaxRegistryCookies == 2

\* the cookies such a snapshot is drawn from: the consent cookie, the Clarity
\* cookie, an optional cookie, the Clarity cookie set on the www host, and a
\* cookie of the base domain whose name is 'cookieyes-consent@.www'
RegistryCookies ==
    { [name |-> CONSENT_COOKIE_NAME, domain |-> WWW_DOMAIN, value |-> ConsentYes],
      [name |-> Clck, domain |-> BASE_DOMAIN, value |-> <<"v">>],
      [name |-> Zldp, domain |-> BASE_DOMAIN, value |-> <<"v">>],
      [name |-> Clck, domain |-> WWW_DOMAIN, value |-> <<"v">>],
      [name |-> CONSENT_COOKIE_NAME \o <<"@",".","w","w","w">>,
       domain |-> BASE_DOMAIN, value |-> <<"v">>] }

\* validateCookies is called with a snapshot and the entry of a registered
\* environment
RegistryValidateInit ==
    /\ vpc = "call"
    /\ cookies \in SeqUpTo(RegistryCookies, MaxRegistryCookies)
    /\ expectations \in { COOKIE_EXPECTATIONS[n] : n \in DOMAIN COOKIE_EXPECTATIONS }
    /\ validationResult = [isValid |-> FALSE, missingRequired |-> <<>>,
                           foundOptional |-> 0, totalOptional |-> 0]
    /\ PollIdle
    /\ DecIdle
    /\ WfIdle
    /\ ConcIdle
    /\ UiIdle

RegistryValidateNext == ValidateCookies

RegistryValidateSpec == RegistryValidateInit /\ [][RegistryValidateNext]_vars

----------------------------------------------------------------------------
(* Properties of waitForConsentCookie *)

Max(a, b) == IF a >= b THEN a ELSE b

\* number of entries of the log equal to op
Count(op) == Cardinality({i \in 1..Len(log) : log[i] = op})
NumFetches == Count("fetch")
NumWaits == Count("wait")
\* fetches that were started, whether they resolved or rejected
NumFetchAttempts ==
    Cardinality({i \in 1..Len(log) : log[i] = "fetch" \/ log[i] \in TransportErrors})
\* a call on the page was rejected: a fetch, or a wait
PageCallRejected ==
    \E i \in 1..Len(log) :
        log[i] \in TransportErrors
            \/ log[i] \in {"waitForTimeout rejected: BrowserClosed",
                           "waitForTimeout rejected: ContextTornDown"}

\* a snapshot holds a committed consent cookie: a cookie named
\* 'cookieyes-consent' whose value contains 'consent:yes'
HoldsCommittedConsent(snapshot) ==
    {c \in {snapshot[i] : i \in 1..Len(snapshot)} :
        c.name = CONSENT_COOKIE_NAME /\ Includes(c.value, ConsentYes)} # {}

\* the fetches that observed a committed consent cookie
CommittingFetches == {j \in 1..Len(fetched) : HoldsCommittedConsent(fetched[j])}

\* the states of the polling engine, read off the exits of the loop
PollState ==
    CASE pc = "done" /\ consentCookieSet -> "COMMITTED"
      [] pc = "done" /\ ~consentCookieSet -> "EXHAUSTED"
      [] pc = "failed" -> "FAILED"
      [] OTHER -> "POLLING"

\* C1: polling convergence. With maxRetries >= 1, as long as no fetch has
\* observed a committed consent cookie and fewer than maxRetries fetches were
\* made, the loop has not returned (so fetch k <= maxRetries is reached); and
\* once fetch k observes one, the run ends COMMITTED with exactly k fetches,
\* exactly k-1 waits, and the snapshot of fetch k as its value.
PollingConvergence ==
    maxRetries >= 1 =>
        /\ (CommittingFetches = {} /\ Len(fetched) < maxRetries) => pc # "done"
        /\ \A k \in CommittingFetches :
              /\ k <= maxRetries
              /\ PollState = "COMMITTED"
              /\ result = [state |-> "fulfilled", value |-> fetched[k]]
              /\ NumFetches = k
              /\ NumWaits = k - 1

\* C1 witness: maxRetries = 3, the third fetch is the first to observe a
\* committed consent cookie, and the loop has returned.
PollingConvergenceWitness ==
    /\ pc = "done"
    /\ maxRetries = 3
    /\ CommittingFetches = {3}
    /\ NumWaits = 2

\* C2: polling exhaustion. With maxRetries >= 1 and no fetch ever observing a
\* committed consent cookie, no more than maxRetries fetches are made, the loop
\* returns only after exactly maxRetries fetches, it ends EXHAUSTED with the
\* promise fulfilled (not rejected) by the snapshot of the last fetch, and the
\* promise is rejected only when a call on the page itself was rejected.
PollingExhaustion ==
    (maxRetries >= 1 /\ CommittingFetches = {}) =>
        /\ NumFetchAttempts <= maxRetries
        /\ pc = "done" =>
              /\ NumFetches = maxRetries
              /\ PollState = "EXHAUSTED"
              /\ result = [state |-> "fulfilled", value |-> fetched[Len(fetched)]]
        /\ pc = "failed" => PageCallRejected

\* C2 witness: maxRetries = 2, two fetches, none committed, the loop returned.
PollingExhaustionWitness ==
    /\ pc = "done"
    /\ maxRetries = 2
    /\ Len(fetched) = 2
    /\ CommittingFetches = {}

\* C3 (as claimed): every wait is followed by another fetch, so a run that has
\* returned made exactly one wait fewer than fetches, COMMITTED or EXHAUSTED.
WaitsOnlyBetweenFetches ==
    pc = "done" =>
        /\ NumWaits = NumFetches - 1
        /\ log[Len(log)] = "fetch"

\* C4: a fetch that observes a committed consent cookie is the last event of
\* the run: the loop has returned that very snapshot, and no wait and no
\* further fetch follows it, whatever budget remains.
ImmediateReturnOnCommit ==
    \A j \in CommittingFetches :
        /\ j = Len(fetched)
        /\ log[Len(log)] = "fetch"
        /\ pc = "done"
        /\ result = [state |-> "fulfilled", value |-> fetched[j]]

\* C4 witness: the first fetch committed with a budget of 3 left unused.
ImmediateReturnOnCommitWitness ==
    /\ pc = "done"
    /\ maxRetries = 3
    /\ CommittingFetches = {1}
    /\ retryCount = 0

\* C5: with maxRetries <= 0 the loop never waits and never fetches twice, and
\* it returns after exactly one fetch with that fetch's snapshot, committed or
\* not.
AtLeastOneFetch ==
    maxRetries <= 0 =>
        /\ NumWaits = 0
        /\ NumFetchAttempts <= 1
        /\ pc # "wait"
        /\ pc = "done" =>
              /\ NumFetches = 1
              /\ result = [state |-> "fulfilled", value |-> fetched[1]]

\* C5 witness: maxRetries = 0 and the single fetch held no committed cookie.
AtLeastOneFetchWitness ==
    /\ maxRetries = 0
    /\ pc = "done"
    /\ Len(fetched) = 1
    /\ CommittingFetches = {}

\* C6: a failing fetch is the last event of the run and the promise is
\* rejected with that same error; a rejected fetch is never followed by a
\* fetch or a wait and never turned into a returned snapshot.
TransportFailurePropagates ==
    \A i \in 1..Len(log) :
        log[i] \in TransportErrors =>
            /\ i = Len(log)
            /\ pc = "failed"
            /\ result = [state |-> "rejected", reason |-> log[i]]

\* C6 witness: the second fetch failed after one fetch and one wait.
TransportFailurePropagatesWitness ==
    /\ pc = "failed"
    /\ Len(log) = 3
    /\ log[1] = "fetch" /\ log[2] = "wait"
    /\ result.state = "rejected"

\* C7: retries are bounded. The number of fetches never exceeds
\* max(1, maxRetries), and under fair scheduling of the awaits every run
\* terminates (the promise settles).
RetriesBounded ==
    /\ [](NumFetchAttempts <= Max(1, maxRetries))
    /\ <>(pc \in {"done", "failed"})

\* C7 witness: a run used its whole budget of MaxRetries fetches and returned.
RetriesBoundedWitness ==
    /\ pc = "done"
    /\ maxRetries = MaxRetries
    /\ NumFetches = MaxRetries

----------------------------------------------------------------------------
(* Properties of validateCookies *)

\* the elements of a sequence
Elems(seq) == {seq[i] : i \in 1..Len(seq)}

\* the 'name@domain' strings of the observed cookies
ObservedKeys == {c.name \o <<"@">> \o c.domain : c \in Elems(cookies)}

\* strictly increasing maps from the positions of sub into those of seq
IsSubsequence(sub, seq) ==
    \E f \in [1..Len(sub) -> 1..Len(seq)] :
        /\ \A i \in 1..Len(sub) : sub[i] = seq[f[i]]
        /\ \A i, j \in 1..Len(sub) : i < j => f[i] < f[j]

\* the list cs reordered by the permutation p of its positions
Permuted(cs, p) == [i \in 1..Len(cs) |-> cs[p[i]]]

\* C8: when requiredCookies is non-empty and every required entry equals the
\* 'name@domain' string of some observed cookie, isValid is true, whatever
\* extra cookies, duplicates or order the observed list has.
AllRequiredPresentIsValid ==
    (/\ vpc = "returned"
     /\ Len(expectations.requiredCookies) > 0
     /\ Elems(expectations.requiredCookies) \subseteq ObservedKeys)
        => validationResult.isValid = TRUE

\* C8 witness: two different required entries, both observed, in the opposite
\* order, and the call has returned.
AllRequiredPresentIsValidWitness ==
    /\ vpc = "returned"
    /\ Len(expectations.requiredCookies) = 2
    /\ expectations.requiredCookies[1] # expectations.requiredCookies[2]
    /\ Len(cookies) = 2
    /\ cookies[1].name \o <<"@">> \o cookies[1].domain = expectations.requiredCookies[2]
    /\ cookies[2].name \o <<"@">> \o cookies[2].domain = expectations.requiredCookies[1]

\* C9: missingRequired holds exactly the required entries that are not among
\* the observed 'name@domain' strings, by exact string equality: every
\* required entry that is not observed is in it, and no entry of it is
\* observed or is not a required entry.
MissingRequiredExact ==
    vpc = "returned" =>
        Elems(validationResult.missingRequired)
            = {k \in Elems(expectations.requiredCookies) : k \notin ObservedKeys}

\* C9 witness: the only observed cookie differs from one required entry only in
\* letter case and from the other only by the leading dot of the domain; both
\* entries are reported missing.
MissingRequiredExactWitness ==
    /\ vpc = "returned"
    /\ cookies = << [name |-> <<"c","k">>, domain |-> <<".","t">>, value |-> <<"v">>] >>
    /\ expectations.requiredCookies = << <<"C","k","@",".","t">>, <<"c","k","@","t">> >>
    /\ Len(validationResult.missingRequired) = 2

\* C10: missingRequired is a subsequence of requiredCookies (same entries, same
\* relative order), and validating any permutation of the observed list gives
\* the same missingRequired.
MissingRequiredStableOrder ==
    vpc = "returned" =>
        /\ IsSubsequence(validationResult.missingRequired, expectations.requiredCookies)
        /\ \A p \in Permutations(1..Len(cookies)) :
              validateCookies(Permuted(cookies, p), expectations).missingRequired
                  = validationResult.missingRequired

\* C10 witness: two different entries are missing while another cookie is
\* observed.
MissingRequiredStableOrderWitness ==
    /\ vpc = "returned"
    /\ Len(validationResult.missingRequired) = 2
    /\ validationResult.missingRequired[1] # validationResult.missingRequired[2]
    /\ Len(cookies) >= 1

\* the observed cookies whose 'name@domain' string is a required entry
RequiredOnly(cs, expected) ==
    SelectSeq(cs, LAMBDA c :
        c.name \o <<"@">> \o c.domain \in Elems(expected.requiredCookies))

\* C11: isValid is true exactly when missingRequired is empty, and it does not
\* depend on the optional side: the same call with the optionalCookies field
\* left out, and the same call with every observed cookie that is not a
\* required entry removed, give the same isValid (so any two calls that differ
\* only in optionalCookies, or only in which non-required cookies are observed,
\* agree on isValid).
IsValidIffNoneMissing ==
    vpc = "returned" =>
        /\ validationResult.isValid = (validationResult.missingRequired = <<>>)
        /\ validateCookies(cookies,
               [requiredCookies |-> expectations.requiredCookies]).isValid
             = validationResult.isValid
        /\ validateCookies(RequiredOnly(cookies, expectations), expectations).isValid
             = validationResult.isValid

\* C11 witness: a valid result although an optional cookie was expected and
\* none was found.
IsValidIffNoneMissingWitness ==
    /\ vpc = "returned"
    /\ validationResult.isValid
    /\ Len(expectations.requiredCookies) > 0
    /\ validationResult.totalOptional > 0
    /\ validationResult.foundOptional = 0

\* C12: totalOptional equals the length of expected.optionalCookies when the
\* field is present, and totalOptional and foundOptional are both 0 when the
\* field is absent or an empty sequence.
TotalOptionalIsLength ==
    vpc = "returned" =>
        IF "optionalCookies" \in DOMAIN expectations
        THEN /\ validationResult.totalOptional = Len(expectations.optionalCookies)
             /\ expectations.optionalCookies = <<>> => validationResult.foundOptional = 0
        ELSE /\ validationResult.totalOptional = 0
             /\ validationResult.foundOptional = 0

\* C12 witness: the optionalCookies field is absent while required entries
\* and observed cookies exist.
TotalOptionalIsLengthWitness ==
    /\ vpc = "returned"
    /\ "optionalCookies" \notin DOMAIN expectations
    /\ Len(expectations.requiredCookies) = 2
    /\ Len(cookies) = 2

----------------------------------------------------------------------------
(* Properties of validateConsentCookieContent *)

\* token occurs in value: at some position the characters of value spell it
OccursIn(token, value) ==
    \E p \in 1..Len(value) :
        /\ p + Len(token) - 1 <= Len(value)
        /\ \A k \in 1..Len(token) : value[p + k - 1] = token[k]

\* the positions of the cookies named 'cookieyes-consent'
ConsentPositions == {i \in 1..Len(cookies) : cookies[i].name = CONSENT_COOKIE_NAME}

\* the raw value of the consent cookie the decoder reads: the first of that name
RawConsentValue ==
    cookies[CHOOSE i \in ConsentPositions : \A j \in ConsentPositions : i <= j].value

\* C13: when the snapshot holds a consent cookie, each reported flag is true
\* exactly when '<key>:yes' occurs literally in its raw value, wherever the
\* token stands and whatever separates the tokens; and the returned record
\* always has exactly the three boolean flags.
DecoderIsSubstringContainment ==
    dpc = "returned" =>
        /\ DOMAIN consentContent = {"hasYesConsent", "hasYesAction", "hasYesNecessary"}
        /\ \A f \in DOMAIN consentContent : consentContent[f] \in BOOLEAN
        /\ ConsentPositions # {} =>
              /\ consentContent.hasYesConsent = OccursIn(ConsentYes, RawConsentValue)
              /\ consentContent.hasYesAction = OccursIn(ActionYes, RawConsentValue)
              /\ consentContent.hasYesNecessary = OccursIn(NecessaryYes, RawConsentValue)

\* C13 witness: the tokens stand in another order, after a blank and a '|',
\* and all three flags decode to true.
DecoderIsSubstringContainmentWitness ==
    /\ dpc = "returned"
    /\ ConsentPositions # {}
    /\ Len(RawConsentValue) > 0
    /\ RawConsentValue[1] = "n"
    /\ OccursIn(<<" ">>, RawConsentValue)
    /\ OccursIn(<<"|">>, RawConsentValue)
    /\ consentContent.hasYesConsent
    /\ consentContent.hasYesAction
    /\ consentContent.hasYesNecessary

\* C14: the decoder always returns, and every flag is false when the snapshot
\* holds no cookie named 'cookieyes-consent', and when the consent cookie's
\* value is empty or holds none of the '<key>:yes' tokens.
DecoderDefaultsToFalse ==
    /\ dpc = "call" => ENABLED ValidateConsentCookieContent
    /\ dpc = "returned" =>
          ((\/ ConsentPositions = {}
            \/ RawConsentValue = <<>>
            \/ /\ ~OccursIn(ConsentYes, RawConsentValue)
               /\ ~OccursIn(ActionYes, RawConsentValue)
               /\ ~OccursIn(NecessaryYes, RawConsentValue))
           => /\ ~consentContent.hasYesConsent
              /\ ~consentContent.hasYesAction
              /\ ~consentContent.hasYesNecessary)

\* C14 witness: a non-empty snapshot without a consent cookie, whose only
\* cookie carries all three tokens under another name, was decoded.
DecoderDefaultsToFalseWitness ==
    /\ dpc = "returned"
    /\ Len(cookies) = 1
    /\ ConsentPositions = {}
    /\ OccursIn(NecessaryYes, cookies[1].value)

\* C15: for a snapshot whose consent cookie has the value written after
\* 'Accept necessary only', the decoder reports consent, action and necessary
\* as yes, the test's expects on necessary:yes, analytics:no and
\* advertisement:no hold (analytics and advertisement do not read as yes), and
\* validateCookies against the expectation whose only required entry is the
\* consent cookie's name@domain key returns isValid = TRUE.
NecessaryOnlyScenario ==
    (/\ ConsentPositions # {}
     /\ \A i \in ConsentPositions :
           /\ cookies[i].value = NecessaryOnlyValue
           /\ cookies[i].domain = WWW_DOMAIN)
    => /\ dpc = "returned" =>
             consentContent = [hasYesConsent |-> TRUE, hasYesAction |-> TRUE,
                               hasYesNecessary |-> TRUE]
       /\ necessaryOnly \notin
             { "Consent cookie should be present",
               "Consent should indicate necessary cookies accepted",
               "Analytics should be disabled",
               "Advertisement should be disabled" }
       /\ (vpc = "returned" /\ Len(expectations.requiredCookies) = 1)
             => validationResult.isValid = TRUE

\* C15 witness: the snapshot holds that consent cookie, and the decoder, the
\* test and validateCookies against the consent-only expectation have all run.
NecessaryOnlyScenarioWitness ==
    /\ ConsentPositions # {}
    /\ \A i \in ConsentPositions : cookies[i].value = NecessaryOnlyValue
    /\ dpc = "returned"
    /\ necessaryOnly = "passed"
    /\ vpc = "returned"
    /\ Len(expectations.requiredCookies) = 1
----------------------------------------------------------------------------
(* Properties of the registry and of the customization workflow *)

\* the keys the registry declares
RegisteredKeys == DOMAIN COOKIE_EXPECTATIONS

\* the workflow has returned or thrown
WorkflowEnded == wpc \in {"passed", "failed"}

\* C16 (as claimed): once the lookup has returned, its result is the
\* registered record when the project name is a registered key, and null for
\* every other project name.
RegistryLookupContract ==
    wpc \notin {"idle", "lookup"} =>
        IF projectName \in RegisteredKeys
        THEN projectExpectations = COOKIE_EXPECTATIONS[projectName]
        ELSE projectExpectations = Null

\* C17 (as claimed): under a project name that is not a registered key the
\* workflow goes from the lookup straight to a normal return: one warning line
\* naming the project, no call of validateCookies, no call of the consent
\* decoder, no failure.
ConfigurationGapNonFatal ==
    (projectName \notin RegisteredKeys /\ wpc \notin {"idle", "lookup"}) =>
        /\ wpc = "passed"
        /\ failure = NoFailure
        /\ vpc = "idle"
        /\ dpc = "idle"
        /\ Len(console) = 1
        /\ console[1].projectName = projectName
\* the required names of the project's registry entry that no cookie of the
\* final snapshot carries
MissingRequiredNames ==
    {k \in Elems(COOKIE_EXPECTATIONS[projectName].requiredCookies) : k \notin ObservedKeys}

\* the first consent cookie of the final snapshot reads consent, action and
\* necessary as yes
ConsentDecodesAllYes ==
    /\ ConsentPositions # {}
    /\ OccursIn(ConsentYes, RawConsentValue)
    /\ OccursIn(ActionYes, RawConsentValue)
    /\ OccursIn(NecessaryYes, RawConsentValue)

\* the texts of the failure report that list missing cookies: the console
\* line and the assertion message
ReportedMissing ==
    {console[i].missingRequired :
        i \in {j \in 1..Len(console) : "missingRequired" \in DOMAIN console[j]}}
    \cup (IF failure.type = "expect" /\ "missingCookie" \in DOMAIN failure.message
          THEN {failure.message.missingCookie} ELSE {})

\* the texts of the failure report that list the observed cookies
ReportedAvailable ==
    {console[i].availableCookies :
        i \in {j \in 1..Len(console) : "availableCookies" \in DOMAIN console[j]}}
    \cup (IF failure.type = "expect" /\ "availableCookies" \in DOMAIN failure.message
          THEN {failure.message.availableCookies} ELSE {})

\* the final snapshot fails validation for a registered project
ValidationFails ==
    /\ projectName \in RegisteredKeys
    /\ (MissingRequiredNames # {} \/ ~ConsentDecodesAllYes)

\* C18 (as claimed): whenever validation fails for a registered project, the
\* workflow ends in an assertion failure whose report lists every missing
\* required name and every observed name@domain.
ValidationFailureAlwaysListsCookies ==
    (WorkflowEnded /\ ValidationFails) =>
        /\ wpc = "failed"
        /\ failure.type = "expect"
        /\ (MissingRequiredNames = {} \/
              \E t \in ReportedMissing : \A k \in MissingRequiredNames : OccursIn(k, t))
        /\ \E t \in ReportedAvailable : \A k \in ObservedKeys : OccursIn(k, t)

\* C18 (amended): whenever validation fails for a registered project, the
\* workflow ends in an assertion failure; when a required cookie is missing,
\* the report (console and assertion message) lists every missing required
\* name and every observed name@domain, and the assertion names a missing
\* cookie. A failure of the consent decoding alone is reported by its own
\* assertion message, without the cookie lists.
ValidationFailureNeverSwallowed ==
    (WorkflowEnded /\ ValidationFails) =>
        /\ wpc = "failed"
        /\ failure.type = "expect"
        /\ MissingRequiredNames # {} =>
              /\ \E t \in ReportedMissing :
                     \A k \in MissingRequiredNames : OccursIn(k, t)
              /\ \E t \in ReportedAvailable : \A k \in ObservedKeys : OccursIn(k, t)
              /\ failure.message.missingCookie \in MissingRequiredNames
        /\ MissingRequiredNames = {} =>
              failure.message.text \in
                  {"Consent cookie should be updated after customization",
                   "Consent cookie should contain consent:yes",
                   "Consent cookie should contain action:yes",
                   "Consent cookie should contain necessary:yes"}

\* a registered project's run has failed on a snapshot that holds a cookie
\* but neither of the two required ones
ValidationFailureNeverSwallowedWitness ==
    /\ wpc = "failed"
    /\ projectName \in RegisteredKeys
    /\ Cardinality(MissingRequiredNames) = 2
    /\ Len(cookies) > 0
    /\ Len(console) > 0
\* a key of the form name@domain: one '@', a name before it, a domain after it
HasNameAtDomainForm(key) ==
    /\ Cardinality({p \in 1..Len(key) : key[p] = "@"}) = 1
    /\ \E p \in 2..(Len(key) - 1) : key[p] = "@"

\* an expectations record with at least one required cookie and only
\* name@domain entries
WellFormedExpectations(e) ==
    /\ Len(e.requiredCookies) > 0
    /\ \A i \in 1..Len(e.requiredCookies) : HasNameAtDomainForm(e.requiredCookies[i])
    /\ "optionalCookies" \in DOMAIN e =>
          \A i \in 1..Len(e.optionalCookies) : HasNameAtDomainForm(e.optionalCookies[i])

\* C19: every registered environment has a non-empty requiredCookies, and
\* every required and optional entry has the form name@domain; so has the
\* record the workflow holds after looking up a registered project.
RegistryWellFormed ==
    /\ \A n \in RegisteredKeys : WellFormedExpectations(COOKIE_EXPECTATIONS[n])
    /\ (wpc \notin {"idle", "lookup"} /\ projectName \in RegisteredKeys) =>
          WellFormedExpectations(projectExpectations)

\* the workflow holds the looked-up entry of a mobile project: two required
\* and two optional cookies
RegistryWellFormedWitness ==
    /\ wpc = "log"
    /\ projectName = "Mobile Safari"
    /\ Len(projectExpectations.requiredCookies) = 2
    /\ Len(projectExpectations.optionalCookies) = 2
----------------------------------------------------------------------------
(* Properties of parallel runs *)

\* the exit a worker's polling loop has taken
WorkerState(p) ==
    CASE workers[p].pc = "done" /\ workers[p].consentCookieSet -> "COMMITTED"
      [] workers[p].pc = "done" /\ ~workers[p].consentCookieSet -> "EXHAUSTED"
      [] workers[p].pc = "failed" -> "FAILED"
      [] OTHER -> "POLLING"

\* number of entries of a worker's log equal to op
WorkerCount(p, op) ==
    Cardinality({i \in 1..Len(workers[p].log) : workers[p].log[i] = op})

\* seq starts with prefix
IsPrefix(prefix, seq) ==
    /\ Len(prefix) <= Len(seq)
    /\ \A i \in 1..Len(prefix) : prefix[i] = seq[i]

\* C20: under every interleaving, a worker whose polling loop has ended made
\* the fetches and waits, took the exit and returned the snapshot that the
\* loop produces alone on a page giving the same outcomes; and a worker still
\* polling has so far done what the loop alone does first.
ConcurrentRunsIndependent ==
    \A p \in DOMAIN workers :
        LET w == workers[p]
            alone == RunAlone(w.source, w.maxRetries)
            aloneCount(op) == Cardinality({i \in 1..Len(alone.log) : alone.log[i] = op})
        IN  /\ IsPrefix(w.log, alone.log)
            /\ w.pc \in {"done", "failed"} =>
                  /\ alone.used = Len(w.source)
                  /\ WorkerCount(p, "fetch") = aloneCount("fetch")
                  /\ WorkerCount(p, "wait") = aloneCount("wait")
                  /\ WorkerState(p) = alone.state
                  /\ w.result = alone.result

\* both loops are in the middle of their runs at the same time: worker 1 waits
\* after its first fetch while worker 2, one retry ahead, is about to fetch
ConcurrentRunsIndependentWitness ==
    /\ DOMAIN workers = Workers
    /\ workers[1].pc = "wait"
    /\ workers[1].retryCount = 0
    /\ workers[2].pc = "fetch"
    /\ workers[2].retryCount = 1
----------------------------------------------------------------------------
(* Properties of CookieCustomizationTest.execute *)

\* the documented order of the workflow's steps
DocumentedOrder ==
    << "navigate", "getCookies", "openCustomizeModal", "handleDesktopSpecificUI",
       "savePreferences", "handleBrowserSpecificWaits", "waitForConsentCookie",
       "validateCookies" >>

\* the entries of seq that belong to S, in order
RECURSIVE Restrict(_, _)
Restrict(seq, S) ==
    IF Len(seq) = 0 THEN <<>>
    ELSE IF seq[1] \in S THEN <<seq[1]>> \o Restrict(Tail(seq), S)
    ELSE Restrict(Tail(seq), S)

\* the positions of step in the trace
PositionsOf(step) == {j \in 1..Len(trace) : trace[j] = step}

\* the steps that act on the consent banner
ConsentInteractions == {"openCustomizeModal", "handleDesktopSpecificUI", "savePreferences"}

\* C21: the calls execute() has made are, in order, an initial part of the
\* documented sequence; the 'before' snapshot precedes every consent
\* interaction; polling has not started unless savePreferences was called
\* before it; and once validation has started it works on the very snapshot
\* the polling promise was fulfilled with.
WorkflowStepOrder ==
    /\ IsPrefix(Restrict(trace, Elems(DocumentedOrder)), DocumentedOrder)
    /\ \A s \in ConsentInteractions : \A j \in PositionsOf(s) :
          \E k \in PositionsOf("getCookies") : k < j
    /\ \A j \in PositionsOf("waitForConsentCookie") :
          \E k \in PositionsOf("savePreferences") : k < j
    /\ pc # "idle" => PositionsOf("savePreferences") # {}
    /\ wpc # "idle" =>
          /\ PositionsOf("validateCookies") # {}
          /\ result.state = "fulfilled"
          /\ cookies = result.value
          /\ cookies = cookiesAfter

\* a Microsoft Edge run went through all nine statements, polled with two
\* waits, and validated the two-cookie snapshot polling returned
WorkflowStepOrderWitness ==
    /\ wpc = "passed"
    /\ projectName = "Microsoft Edge"
    /\ Len(trace) = 9
    /\ retryCount = 2
    /\ Len(cookies) = 2
    /\ cookies = result.value
----------------------------------------------------------------------------
(* Properties of CookiePreferencesPage and the per-category tests *)

\* the approaches tried so far did not open the dialog
AllTriedFailed == \A j \in 1..Len(outcomes) : outcomes[j].result # "true"

\* C22: the approaches are tried in the order 1, 2, 3; an approach succeeds
\* exactly when it leaves the dialog visible, and only the last one tried can
\* have done so; after a failed approach, thrown or not, the next one is
\* tried; the function throws 'Could not open cookie preferences dialog after
\* all attempts' exactly when three approaches were tried and all failed, and
\* otherwise leaves only by returning; and it never tries an approach, so
\* never clicks, when the dialog was visible on entry.
OpenPreferencesInOrder ==
    /\ Len(outcomes) <= 3
    /\ \A j \in 1..Len(outcomes) :
          /\ outcomes[j].approach = j
          /\ (outcomes[j].result = "true") <=> outcomes[j].visible
          /\ j < Len(outcomes) => outcomes[j].result # "true"
    /\ \A j \in 1..Len(clicks) :
          /\ clicks[j] \in 1..3
          /\ clicks[j] <= Len(outcomes) + (IF opc = "clicked" THEN 1 ELSE 0)
          /\ \A k \in 1..(j - 1) : clicks[k] < clicks[j]
    /\ opc \in {"idle", "check", "attempt", "clicked", "returned", "thrown", "rejected"}
    /\ opc = "rejected" => outcomes = <<>> /\ clicks = <<>>
    /\ opc = "clicked" => clicks # <<>> /\ clicks[Len(clicks)] = Len(outcomes) + 1
    /\ (Len(outcomes) \in 1..2 /\ AllTriedFailed) => opc \in {"attempt", "clicked"}
    /\ (opc = "returned" /\ Len(outcomes) > 0) => outcomes[Len(outcomes)].result = "true"
    /\ (opc = "thrown") <=> (Len(outcomes) = 3 /\ AllTriedFailed)
    /\ opc = "thrown" =>
          failure = [type |-> "Error",
                     message |-> "Could not open cookie preferences dialog after all attempts"]
    /\ (opc = "attempt" /\ outcomes = <<>>) => ~dialogVisible
    /\ (opc = "returned" /\ outcomes = <<>>) => clicks = <<>>

\* approach 1 threw, approach 2 clicked and left the dialog hidden, approach 3
\* clicked and opened it: the function returned after the third
OpenPreferencesInOrderWitness ==
    /\ opc = "returned"
    /\ Len(outcomes) = 3
    /\ outcomes[1].result = "threw"
    /\ outcomes[2].result = "false"
    /\ outcomes[3].result = "true"
    /\ clicks = <<2, 3>>

\* C23 (as claimed): when Save My Preferences is clicked, the checkbox of the
\* category under test is checked and no other optional category's is.
CategoryIsolation ==
    checkedAtSave # <<>> =>
        \A c \in OptionalCategories : checkedAtSave[c] <=> (c = category)
----------------------------------------------------------------------------
(* Properties of analyzeCookieData *)

\* the exported files of a project among the entries that were read and
\* parsed
FilesOf(project) ==
    {j \in 1..Len(files) :
        /\ EndsWith(files[j].name, JsonSuffix)
        /\ files[j].read = "ok"
        /\ files[j].parse = "ok"
        /\ files[j].data.project = project}

\* the name@domain keys of the post-customization cookies of file j
KeysOfFile(j) ==
    {files[j].data.cookiesAfter[k].name \o <<"@">> \o files[j].data.cookiesAfter[k].domain :
        k \in 1..Len(files[j].data.cookiesAfter)}

\* the keys that occur in the post-customization list of every run of project
KeysInAllRuns(project) ==
    {key \in UNION {KeysOfFile(j) : j \in FilesOf(project)} :
        \A j \in FilesOf(project) : key \in KeysOfFile(j)}

\* C24 (as claimed): for every analysed project, consistentCookiesAfter holds
\* exactly the keys that occur in the post-customization list of all of its
\* runs.
ConsistentCookiesExact ==
    apc = "done" =>
        \A project \in DOMAIN projectData :
            {projectData[project].consistentCookiesAfter[j] :
                j \in 1..Len(projectData[project].consistentCookiesAfter)}
            = KeysInAllRuns(project)
----------------------------------------------------------------------------
(* Agreement between the polling commit test and the consent decoder *)

\* C25 (as claimed): when the polling loop ends COMMITTED, the decoder reads
\* consent:yes from the snapshot it returned.
CommitAgreesWithDecoder ==
    PollState = "COMMITTED" =>
        /\ result.state = "fulfilled"
        /\ validateConsentCookieContent(result.value).hasYesConsent
----------------------------------------------------------------------------
(* Properties of the decoder on well-formed consent values *)

\* the pieces of a value between ';', each cut at ':'
ParsedTokens(value) ==
    [i \in 1..Len(Split(value, ";")) |-> Split(Split(value, ";")[i], ":")]

\* the keys and the answers a well-formed value is made of
EightKeys ==
    { <<"c","o","n","s","e","n","t">>,
      <<"a","c","t","i","o","n">>,
      <<"n","e","c","e","s","s","a","r","y">>,
      <<"f","u","n","c","t","i","o","n","a","l">>,
      <<"a","n","a","l","y","t","i","c","s">>,
      <<"p","e","r","f","o","r","m","a","n","c","e">>,
      <<"a","d","v","e","r","t","i","s","e","m","e","n","t">>,
      <<"o","t","h","e","r">> }
Answers == { <<"y","e","s">>, <<"n","o">> }

\* semicolon-joined tokens, each of the eight keys exactly once, each with
\* the answer yes or no
WellFormedValue(value) ==
    LET tokens == ParsedTokens(value) IN
    /\ Len(tokens) = Cardinality(EightKeys)
    /\ \A i \in 1..Len(tokens) :
           /\ Len(tokens[i]) = 2
           /\ tokens[i][1] \in EightKeys
           /\ tokens[i][2] \in Answers
    /\ \A k \in EightKeys :
           Cardinality({i \in 1..Len(tokens) : tokens[i][1] = k}) = 1

\* the reference decoder: the key's own token carries the answer yes
StrictFlag(value, key) ==
    \E i \in 1..Len(ParsedTokens(value)) :
        ParsedTokens(value)[i] = <<key, <<"y","e","s">> >>

\* the value of the consent cookie the decoder was handed
HandedValue == cookies[1].value

\* C26: on every well-formed consent value each flag of the substring decoder
\* equals the flag of the strict split-and-parse decoder: true exactly when
\* the key's own token is '<key>:yes'.
SubstringAgreesWithStrictDecoder ==
    (dpc = "returned" /\ Len(cookies) = 1 /\ WellFormedValue(HandedValue)) =>
        /\ consentContent.hasYesConsent = StrictFlag(HandedValue, <<"c","o","n","s","e","n","t">>)
        /\ consentContent.hasYesAction = StrictFlag(HandedValue, <<"a","c","t","i","o","n">>)
        /\ consentContent.hasYesNecessary = StrictFlag(HandedValue, <<"n","e","c","e","s","s","a","r","y">>)

\* a well-formed value not in the written order, refusing consent and
\* necessary while granting action and advertisement, has been decoded
SubstringAgreesWithStrictDecoderWitness ==
    /\ dpc = "returned"
    /\ Len(cookies) = 1
    /\ WellFormedValue(HandedValue)
    /\ ParsedTokens(HandedValue)[1][1] # <<"c","o","n","s","e","n","t">>
    /\ ~StrictFlag(HandedValue, <<"c","o","n","s","e","n","t">>)
    /\ ~StrictFlag(HandedValue, <<"n","e","c","e","s","s","a","r","y">>)
    /\ StrictFlag(HandedValue, <<"a","c","t","i","o","n">>)
    /\ StrictFlag(HandedValue, <<"a","d","v","e","r","t","i","s","e","m","e","n","t">>)
    /\ consentContent = [hasYesConsent |-> FALSE, hasYesAction |-> TRUE,
                         hasYesNecessary |-> FALSE]
----------------------------------------------------------------------------
(* Properties of the name@domain keys *)

\* the (name, domain) pairs the registry builds its entries from
RegistryPairs ==
    { [name |-> CONSENT_COOKIE_NAME, domain |-> WWW_DOMAIN],
      [name |-> Clck, domain |-> BASE_DOMAIN],
      [name |-> Zldp, domain |-> BASE_DOMAIN],
      [name |-> Zldt, domain |-> BASE_DOMAIN],
      [name |-> Uetsid, domain |-> BASE_DOMAIN],
      [name |-> Uetvid, domain |-> BASE_DOMAIN] }

\* the entry 'n@d' written for a pair
EntryOf(p) == p.name \o <<"@">> \o p.domain

\* the snapshot holds a cookie with exactly this name and this domain
HoldsPair(p) ==
    \E i \in 1..Len(cookies) :
        cookies[i].name = p.name /\ cookies[i].domain = p.domain

\* the required entry of the pair was reported present
ReportedPresent(p) ==
    /\ EntryOf(p) \in Elems(expectations.requiredCookies)
    /\ EntryOf(p) \notin Elems(validationResult.missingRequired)

\* C27: a required entry 'n@d' is reported present only if the
\* snapshot holds a cookie with name exactly n and domain exactly d, and two
\* cookies with different (name, domain) pairs never get the same key.
PresentOnlyWithNameAndDomain ==
    vpc = "returned" =>
        /\ \A p \in RegistryPairs : ReportedPresent(p) => HoldsPair(p)
        /\ \A c1, c2 \in RegistryCookies :
               (c1.name \o <<"@">> \o c1.domain = c2.name \o <<"@">> \o c2.domain)
                   => (c1.name = c2.name /\ c1.domain = c2.domain)

\* the snapshot holds the cookie named 'cookieyes-consent@.www' of the base
\* domain, whose key differs from the consent entry by one more '@'
HoldsNearMiss ==
    \E i \in 1..Len(cookies) :
        /\ cookies[i].name = CONSENT_COOKIE_NAME \o <<"@",".","w","w","w">>
        /\ cookies[i].domain = BASE_DOMAIN

\* the consent entry was reported missing on a snapshot holding the near
\* miss and the Clarity cookie
PresentOnlyWithNameAndDomainWitness ==
    /\ vpc = "returned"
    /\ HoldsNearMiss
    /\ HoldsPair([name |-> Clck, domain |-> BASE_DOMAIN])
    /\ ReportedPresent([name |-> Clck, domain |-> BASE_DOMAIN])
    /\ ~ReportedPresent([name |-> CONSENT_COOKIE_NAME, domain |-> WWW_DOMAIN])

\* C28: a snapshot validated against the entry of a registered
\* environment is valid only if it holds a cookie named cookieyes-consent on
\* .www.thethinkingtraveller.com.
ValidImpliesConsentCookie ==
    (vpc = "returned" /\ validationResult.isValid) =>
        HoldsPair([name |-> CONSENT_COOKIE_NAME, domain |-> WWW_DOMAIN])

\* a snapshot of two cookies, the consent cookie among them, was found valid
ValidImpliesConsentCookieWitness ==
    /\ vpc = "returned"
    /\ Len(cookies) = 2
    /\ validationResult.isValid
    /\ HoldsPair([name |-> CONSENT_COOKIE_NAME, domain |-> WWW_DOMAIN])
----------------------------------------------------------------------------
(* Properties of the optional-cookie count *)

\* the positions of expected.optionalCookies whose entry is an observed key
OptionalEntriesObserved ==
    IF "optionalCookies" \in DOMAIN expectations
    THEN {i \in 1..Len(expectations.optionalCookies) :
              expectations.optionalCookies[i] \in ObservedKeys}
    ELSE {}

\* C29: in every result of validateCookies 0 <= foundOptional <=
\* totalOptional, and foundOptional is the number of entries of
\* expected.optionalCookies that are among the observed keys.
FoundOptionalBounded ==
    vpc = "returned" =>
        /\ 0 <= validationResult.foundOptional
        /\ validationResult.foundOptional <= validationResult.totalOptional
        /\ validationResult.foundOptional = Cardinality(OptionalEntriesObserved)

\* two optional entries were expected, a snapshot holding the same cookie
\* twice was validated, and exactly one of the entries was found
FoundOptionalBoundedWitness ==
    /\ vpc = "returned"
    /\ "optionalCookies" \in DOMAIN expectations
    /\ Len(expectations.optionalCookies) = 2
    /\ Len(cookies) = 2
    /\ cookies[1] = cookies[2]
    /\ validationResult.foundOptional = 1
    /\ validationResult.totalOptional = 2
----------------------------------------------------------------------------
(* Properties of the configured projects *)

\* the project names of the Playwright configuration
ConfiguredProjectNames ==
    {"Mobile Safari", "Mobile Chrome", "chromium", "webkit", "firefox",
     "Microsoft Edge"}

\* the warning of the configuration-gap branch was written
GapWarningWritten ==
    \E i \in 1..Len(console) :
        console[i].line = "No validation rules defined for project: ${this.projectName}"

\* C30: every configured project name is a registered key, and in a run of
\* a configured project the lookup returns the project's record: the
\* configuration-gap warning is never written and validation is not skipped.
ConfiguredProjectsRegistered ==
    /\ ConfiguredProjectNames \subseteq RegisteredKeys
    /\ epc # 0 => projectName \in ConfiguredProjectNames
    /\ (epc # 0 /\ wpc \notin {"idle", "lookup"}) =>
           /\ projectName \in RegisteredKeys
           /\ projectExpectations = COOKIE_EXPECTATIONS[projectName]
           /\ ~GapWarningWritten
           /\ (wpc = "passed" => vpc = "returned")

\* the run of project 'Microsoft Edge' has looked its record up and passed
\* with the snapshot validated
ConfiguredProjectsRegisteredWitness ==
    /\ epc # 0
    /\ projectName = "Microsoft Edge"
    /\ wpc = "passed"
    /\ vpc = "returned"
    /\ projectExpectations = COOKIE_EXPECTATIONS["Microsoft Edge"]
    /\ ~GapWarningWritten

====
